---- MODULE Spec2Model ----
(***************************************************************************)
(* Client-side translation job polling: the document service (request     *)
(* de-duplication, 401 retry, fallback status synthesis) and the page      *)
(* level polling orchestrator, modelled as state machines.                 *)
(*                                                                         *)
(* One JavaScript task (a timer callback, a network response with the      *)
(* promise continuations it releases, a user event handler) together with  *)
(* the React render and effect pass it triggers is one atomic action.      *)
(* Handlers are operators from a world record to a world record; an        *)
(* action commits the world a handler returns.                             *)
(***************************************************************************)
EXTENDS Integers, Sequences, FiniteSets, Bags, TLC

VARIABLES
  authToken,          \* module-level cached bearer token (TRUE = cached)
  activeRequests,     \* documentService._activeRequests: key -> in-flight promise
  lastKnownStatus,    \* documentService._lastKnownStatus: processId -> snapshot
  netCount,           \* ghost: GETs issued so far, per request key
  inFlight,           \* ghost: GETs on the wire now, per request key
  calls,              \* direct callers of the service (test harness)
  server,             \* backend job state, per processId (0 = no such job)
  serverUp,           \* FALSE while the backend answers every status request 503
  translationStatus,  \* the page's translationStatus state
  consecFailures,     \* the page's consecFailures state
  statusCheckTimeoutRef, \* statusCheckTimeoutRef.current: 0 = null, -1 = a timer gone
  timers,             \* pending setTimeout callbacks, each with the closure it captured
  polls,              \* bag of the page's status requests in flight, each with its closure
  submitting,         \* initiateTranslation calls in flight
  successToasts,      \* 'Translation completed!' toasts shown
  jobs,               \* POST /documents/translate requests sent so far
  resultLog,          \* ghost: the answers given to the page's result requests
  lastFallbackStatus, \* the stall page's lastFallbackStatus state
  statusCheckStalled, \* the stall page's statusCheckStalled state
  timeCounter,        \* the stall page's timeCounter state, as a level
  simulatedProgress,  \* the stall page's simulatedProgress state
  forcedProgressRef,  \* TRUE while the interval in forcedProgressRef runs
  tickSimActive,      \* simulatedProgress.active as the one-second interval captured it
  statusLog,          \* ghost: the answers given to the stall page's status requests
  tokenExpiryTime,    \* tokenExpiryTime of src/services/api.js, in minutes (0 = null)
  now,                \* Date.now(), in minutes
  requestInterceptorId, \* requestInterceptorId (0 = null)
  interceptors,       \* ids of the request interceptors registered on the axios instance
  handlers,           \* ids api.interceptors.request.use has handed out
  pendingFetches,     \* initial getToken calls of registerAuthInterceptor in flight
  mounted,            \* components using useApiAuth that are mounted
  reqs,               \* calls of the operations that are not de-duplicated
  balance,            \* the call of balanceService.getBalance
  unmounted,          \* TRUE once the translation page is unmounted
  pollInterval        \* the last call of getPollInterval: its jitter and its result

vars == <<authToken, activeRequests, lastKnownStatus, netCount, inFlight, calls, server,
          serverUp, translationStatus, consecFailures, statusCheckTimeoutRef, timers,
          polls, submitting, successToasts, jobs, resultLog, lastFallbackStatus,
          statusCheckStalled, timeCounter, simulatedProgress, forcedProgressRef,
          tickSimActive, statusLog, tokenExpiryTime, now, requestInterceptorId,
          interceptors, handlers, pendingFetches, mounted, reqs, balance, unmounted, pollInterval>>

----------------------------------------------------------------------------
\* Bounds of the model

MaxJobs == 2        \* processIds the backend hands out
MaxPids == 1        \* processIds the direct callers of the service ask about
NumCallers == 2     \* concurrent direct callers of the service
MaxGets == 3        \* GET requests the direct callers cause per behaviour
MaxTimers == 3      \* setTimeout callbacks pending at once
MaxSubmits == 1     \* translations a user submits on a page
MaxStatusReqs == 3  \* status requests a page issues while the backend is up
MaxDownReqs == 17   \* status requests a page issues while the backend is down
MaxResultReqs == 2  \* result requests a page issues
MaxWaiters == 2     \* calls sharing one promise of the de-duplicating service
MaxSimTicks == 1    \* steps of simulated progress after it starts
MaxStallReqs == 2   \* status requests the stall page issues to a backend that is up
NumComponents == 2  \* components using useApiAuth
MaxOpCalls == 1     \* concurrent calls of operations that are not de-duplicated
MaxPosts == 3       \* POST requests one call of an operation sends
MaxHandlers == 3    \* request interceptors registered over time
MaxNow == 56        \* minutes the clock runs
MaxScenarioReqs == 10  \* status requests the page issues in scenario A

Pids == 1..MaxJobs
CallerPids == 1..MaxPids
Callers == 1..NumCallers

Null == "null"       \* a null string field
NoPid == 0           \* processId: null
NoStatus == [status |-> "none", progress |-> 0, currentPage |-> 0, totalPages |-> 0]

----------------------------------------------------------------------------
\* Backend: a job moves pending -> in_progress(40) -> in_progress(90) ->
\* completed, or fails; GET /documents/status/:id returns the current entry.

Script ==
  << [status |-> "pending",     progress |-> 0,   currentPage |-> 0, totalPages |-> 0],
     [status |-> "in_progress", progress |-> 40,  currentPage |-> 2, totalPages |-> 5],
     [status |-> "completed",   progress |-> 100, currentPage |-> 5, totalPages |-> 5],
     [status |-> "failed",      progress |-> 40,  currentPage |-> 2, totalPages |-> 5] >>

PendingIx == CHOOSE i \in 1..Len(Script) : Script[i].status = "pending"
CompletedIx == CHOOSE i \in 1..Len(Script) : Script[i].status = "completed"
FailedIx == CHOOSE i \in 1..Len(Script) : Script[i].status = "failed"

\* The body of a 200 answer to a status request; the server sends no isFallback
\* field, so statusData.isFallback === true is false for it.
StatusData(ix) ==
  [status |-> Script[ix].status, progress |-> Script[ix].progress,
   currentPage |-> Script[ix].currentPage, totalPages |-> Script[ix].totalPages,
   isFallback |-> FALSE]

\* What the network can answer to a GET: an HTTP status, a timeout/abort
\* (ECONNABORTED, AbortError) or a network error with no response at all.
HttpCodes == {200, 400, 401, 404, 500, 503}
Answers == [kind : {"http"}, code : HttpCodes] \cup
           [kind : {"timeout", "network"}, code : {0}]
Ok200 == [kind |-> "http", code |-> 200]

IsTimeout(a) == a.kind = "timeout"
HasResponse(a) == a.kind = "http"

----------------------------------------------------------------------------
\* Request keys of _activeRequests

StatusKey(p) == <<"status", p>>
ResultKey(p) == <<"result", p>>
ResultKeyMode(p, allowPartial) ==
  <<IF allowPartial THEN "result-partial" ELSE "result-complete", p>>

Keys == {"status", "result", "result-partial", "result-complete"} \X Pids

NoReq == [stage |-> "none", waiters |-> <<>>, gets |-> 0]

\* Outcomes a service promise settles with
Value(d) == [tag |-> "value", data |-> d, message |-> "", statusCode |-> 0]
NoData == [status |-> "none", progress |-> 0, currentPage |-> 0, totalPages |-> 0,
           isFallback |-> FALSE]
Error(msg, code) == [tag |-> "error", data |-> NoData, message |-> msg, statusCode |-> code]
NoOutcome == [tag |-> "none", data |-> NoData, message |-> "", statusCode |-> 0]

\* What a pollTranslationStatus closure captured from the render that made it
NoClosure == [processId |-> NoPid, isLoading |-> FALSE, cf |-> 0, simActive |-> FALSE]

\* Who awaits a promise: a direct caller of the service or a page continuation
CallerWaiter(c) == [kind |-> "caller", id |-> c, cl |-> NoClosure]

----------------------------------------------------------------------------
\* State of the page after construction

InitialTranslationStatus ==
  [isLoading |-> FALSE, progress |-> 0, status |-> Null, error |-> Null,
   translatedText |-> Null, fileName |-> Null, direction |-> "ltr",
   processId |-> NoPid, currentPage |-> 0, totalPages |-> 0,
   lastStatusUpdate |-> Null]

NoTimer == [kind |-> "none", cl |-> NoClosure]

NoInterval == [page |-> "none", jitter |-> 0, backoff |-> 0, interval |-> 0]

InitPage ==
  /\ translationStatus = InitialTranslationStatus
  /\ consecFailures = 0
  /\ statusCheckTimeoutRef = 0
  /\ timers = [i \in 1..MaxTimers |-> NoTimer]
  /\ polls = EmptyBag
  /\ submitting = 0
  /\ successToasts = 0
  /\ jobs = 0
  /\ resultLog = <<>>
  /\ lastFallbackStatus = FALSE
  /\ statusCheckStalled = FALSE
  /\ timeCounter = 0
  /\ simulatedProgress = [active |-> FALSE, value |-> 0, page |-> 0, total |-> 0]
  /\ forcedProgressRef = FALSE
  /\ tickSimActive = FALSE
  /\ statusLog = <<>>
  /\ unmounted = FALSE
  /\ pollInterval = NoInterval

----------------------------------------------------------------------------
\* State of the axios layer of src/services/api.js after the module is loaded

TokenLifetime == 55

ClockSteps == {27, 28}

Components == 1..NumComponents
OpCalls == 1..MaxOpCalls
DriveOperations == {"exportToDriveAsPdf", "exportToDriveAsDocx"}
Operations == {"initiateTranslation", "exportToPdf", "exportToDocx"} \cup DriveOperations

\* What getToken of the identity provider can do
ProviderResults == {"token", "null", "throw"}

NoOpCall ==
  [op |-> "none", stage |-> "idle", posts |-> 0, header |-> FALSE, retry |-> FALSE,
   startedAt |-> 0, outcome |-> "none"]

\* getBalance before it is called
NoBalanceCall ==
  [stage |-> "idle", endpoint |-> "none", header |-> FALSE, startedAt |-> 0,
   settled |-> "none", result |-> [userId |-> "none"]]

InitAxios ==
  /\ tokenExpiryTime = 0
  /\ now = 0
  /\ requestInterceptorId = 0
  /\ interceptors = {}
  /\ handlers = 0
  /\ pendingFetches = 0
  /\ mounted = {}
  /\ reqs = [i \in OpCalls |-> NoOpCall]
  /\ balance = NoBalanceCall

axiosVars == <<tokenExpiryTime, now, requestInterceptorId, interceptors, handlers,
               pendingFetches, mounted, reqs, balance>>

----------------------------------------------------------------------------
\* The world a handler reads and returns

\* touched: setTranslationStatus was called in this macrotask (a new state object);
\* stamped: lastStatusUpdate was given a new time; ticked: timeCounter was;
\* overflow: the task needed more timers than the model holds.
World ==
  [authToken |-> authToken, activeRequests |-> activeRequests,
   lastKnownStatus |-> lastKnownStatus, netCount |-> netCount,
   inFlight |-> inFlight, calls |-> calls, server |-> server, serverUp |-> serverUp,
   ts |-> translationStatus, cf |-> consecFailures, ref |-> statusCheckTimeoutRef,
   timers |-> timers, polls |-> polls, submitting |-> submitting,
   successToasts |-> successToasts,
   jobs |-> jobs, resultLog |-> resultLog,
   lastFallbackStatus |-> lastFallbackStatus, statusCheckStalled |-> statusCheckStalled,
   timeCounter |-> timeCounter, simulatedProgress |-> simulatedProgress,
   forcedProgress |-> forcedProgressRef, tickSimActive |-> tickSimActive,
   statusLog |-> statusLog, unmounted |-> unmounted, stamped |-> FALSE, ticked |-> FALSE,
   touched |-> FALSE, overflow |-> FALSE]

Commit(w) ==
  /\ ~w.overflow
  /\ authToken' = w.authToken
  /\ activeRequests' = w.activeRequests
  /\ lastKnownStatus' = w.lastKnownStatus
  /\ netCount' = w.netCount
  /\ inFlight' = w.inFlight
  /\ calls' = w.calls
  /\ server' = w.server
  /\ serverUp' = w.serverUp
  /\ translationStatus' = w.ts
  /\ consecFailures' = w.cf
  /\ statusCheckTimeoutRef' = w.ref
  /\ timers' = w.timers
  /\ polls' = w.polls
  /\ submitting' = w.submitting
  /\ successToasts' = w.successToasts
  /\ jobs' = w.jobs
  /\ resultLog' = w.resultLog
  /\ lastFallbackStatus' = w.lastFallbackStatus
  /\ statusCheckStalled' = w.statusCheckStalled
  /\ timeCounter' = w.timeCounter
  /\ simulatedProgress' = w.simulatedProgress
  /\ forcedProgressRef' = w.forcedProgress
  /\ tickSimActive' = w.tickSimActive
  /\ statusLog' = w.statusLog
  /\ unmounted' = w.unmounted
  /\ UNCHANGED pollInterval
  /\ UNCHANGED axiosVars

TotalGets(w) ==
  LET RECURSIVE Sum(_)
      Sum(S) == IF S = {} THEN 0
                ELSE LET k == CHOOSE k \in S : TRUE IN w.netCount[k] + Sum(S \ {k})
  IN Sum(Keys)

----------------------------------------------------------------------------
\* Request interceptor (token cache of the de-duplicating service): a request
\* leaves with the cached token, fetching one first when the cache is empty.

Interceptor(w) == [w EXCEPT !.authToken = TRUE]

\* api.get(url): one GET on the wire for the promise stored under key
IssueGet(w, key) ==
  LET w1 == Interceptor(w) IN
  [w1 EXCEPT !.netCount[key] = @ + 1,
             !.inFlight[key] = @ + 1,
             !.activeRequests[key].gets = @ + 1]

\* the answer to a GET leaves the wire
Answered(w, key) == [w EXCEPT !.inFlight[key] = @ - 1]

\* documentService._updateLastKnownStatus
UpdateLastKnownStatus(w, p, d) ==
  [w EXCEPT !.lastKnownStatus[p] =
     [status |-> d.status, progress |-> d.progress,
      currentPage |-> d.currentPage, totalPages |-> d.totalPages]]

\* Variant that always answers with the default pending status
CreateFallbackStatusDefault(w, p) ==
  [status |-> "pending", progress |-> 0, currentPage |-> 0, totalPages |-> 0,
   isFallback |-> TRUE]

\* documentService._createFallbackStatus
CreateFallbackStatus(w, p) ==
  LET lastStatus == w.lastKnownStatus[p] IN
  IF lastStatus # NoStatus
  THEN [status |-> lastStatus.status, progress |-> lastStatus.progress,
        currentPage |-> lastStatus.currentPage, totalPages |-> lastStatus.totalPages,
        isFallback |-> TRUE]
  ELSE [status |-> "pending", progress |-> 0, currentPage |-> 0, totalPages |-> 0,
        isFallback |-> TRUE]

\* documentService._handleAuthError, up to its 500 ms wait: the cached token
\* is cleared and the promise waits for the retry.
HandleAuthError(w, key) ==
  [w EXCEPT !.authToken = FALSE, !.activeRequests[key].stage = "authWait"]

----------------------------------------------------------------------------
\* Direct callers of the service

IdleCall == [state |-> "idle", pid |-> NoPid, partial |-> FALSE, leader |-> 0,
             outcome |-> NoOutcome]

----------------------------------------------------------------------------
\* documentService.checkTranslationStatus of the de-duplicating service

\* Variant without the _activeRequests.has(requestKey) test
CheckTranslationStatusNoDedup(w, p, waiter) ==
  LET key == StatusKey(p)
      w1 == [w EXCEPT !.activeRequests[key] =
               [stage |-> "first", waiters |-> Append(@.waiters, waiter), gets |-> 0]]
  IN IssueGet(w1, key)

\* The call itself: reuse the promise in flight for the key, or start a request
CheckTranslationStatus(w, p, waiter) ==
  LET key == StatusKey(p) IN
  IF w.activeRequests[key] # NoReq
  THEN [w EXCEPT !.activeRequests[key].waiters = Append(@, waiter)]
  ELSE LET w1 == [w EXCEPT !.activeRequests[key] =
                    [stage |-> "first", waiters |-> <<waiter>>, gets |-> 0]]
       IN IssueGet(w1, key)

----------------------------------------------------------------------------
\* documentService.getTranslationResult(processId, allowPartial) of
\* src/services/api.js (the later of the two definitions in the object literal)

\* The messages of the errors getTranslationResult throws
MsgTimedOut == "Request timed out while fetching translation results."
MsgNotFound == "Translation not found. The process may have expired."
MsgNotYetComplete == "Translation is not yet complete. Please wait until it finishes processing."
MsgResultFailed == "Failed to fetch translation result. Please try again later."

\* Variant without the _activeRequests.has(requestKey) test
GetTranslationResultNoDedup(w, p, allowPartial, waiter) ==
  LET key == ResultKeyMode(p, allowPartial)
      w1 == [w EXCEPT !.activeRequests[key] =
               [stage |-> "first", waiters |-> Append(@.waiters, waiter), gets |-> 0]]
  IN IssueGet(w1, key)

GetTranslationResult(w, p, allowPartial, waiter) ==
  LET key == ResultKeyMode(p, allowPartial) IN
  IF w.activeRequests[key] # NoReq
  THEN [w EXCEPT !.activeRequests[key].waiters = Append(@, waiter)]
  ELSE LET w1 == [w EXCEPT !.activeRequests[key] =
                    [stage |-> "first", waiters |-> <<waiter>>, gets |-> 0]]
       IN IssueGet(w1, key)

----------------------------------------------------------------------------
\* The translation page (src/components/DocumentTranslation.jsx) on top of
\* the document service of src/services/api.js.
\*
\* One step of the model is one JavaScript task (an event handler, a timer
\* callback, or the continuations of one settled promise) followed by the
\* render and the effects it causes: state updates made in one task are
\* batched into one render.

MsgTranslationFailed == "Translation failed. Please try again."
MsgLostConnection ==
  "Lost connection to the server. The translation may still be processing in the background."
MsgCancelled == "Translation cancelled by user"
MsgNoProcessId == "No process ID received from the server"
MsgInitiateFailed == "Failed to initiate translation. Please try again later."
ToastCompleted == "Translation completed!"

\* consecFailures >= 15 gives up
FailureCeiling == 15

TerminalStatuses == {"completed", "failed", "cancelled", "unknown"}

\* The pollTranslationStatus callback of the current render
Closure(w) ==
  [processId |-> w.ts.processId, isLoading |-> w.ts.isLoading, cf |-> w.cf,
   simActive |-> w.simulatedProgress.active]

PendingTimers(w) == {i \in 1..MaxTimers : w.timers[i] # NoTimer}

\* statusCheckTimeoutRef.current = setTimeout(pollTranslationStatus, delay)
SetPollTimer(w, kind, cl) ==
  LET free == (1..MaxTimers) \ PendingTimers(w) IN
  IF free = {} THEN [w EXCEPT !.overflow = TRUE]
  ELSE LET i == CHOOSE i \in free : \A j \in free : i <= j
       IN [w EXCEPT !.timers[i] = [kind |-> kind, cl |-> cl], !.ref = i]

\* clearTimeout(id); the ref keeps an id that names no timer any more
ClearTimeout(w, id) ==
  IF id \in 1..MaxTimers
  THEN [w EXCEPT !.timers[id] = NoTimer, !.ref = IF @ = id THEN -1 ELSE @]
  ELSE w

\* documentService.checkTranslationStatus of src/services/api.js: every call
\* sends its own GET
ApiCheckTranslationStatus(w, p, cl) ==
  LET w1 == Interceptor(w) IN
  [w1 EXCEPT !.netCount[StatusKey(p)] = @ + 1,
             !.inFlight[StatusKey(p)] = @ + 1,
             !.polls = @ (+) SetToBag({cl})]

\* The status it reports on a timeout or when no response arrived
\* (isNetworkEstimate: true, which the page does not read)
NetworkEstimate ==
  [status |-> "pending", progress |-> 0, currentPage |-> 0, totalPages |-> 0,
   isFallback |-> FALSE]

\* What the promise of checkTranslationStatus settles with
ApiStatusOutcome(a, d) ==
  IF HasResponse(a) /\ a.code = 200 THEN Value(d)
  ELSE IF IsTimeout(a) \/ ~HasResponse(a) THEN Value(NetworkEstimate)
  ELSE Error("Request failed", a.code)

\* pollTranslationStatus up to its await
PollTranslationStatus(w, cl) ==
  IF cl.processId = NoPid \/ ~cl.isLoading THEN w
  ELSE ApiCheckTranslationStatus(w, cl.processId, cl)

\* fetchTranslationResults up to its await
FetchTranslationResults(w, p, cl) ==
  GetTranslationResult(w, p, FALSE, [kind |-> "fetch", id |-> p, cl |-> cl])

\* Variant of the success branch that leaves isLoading set
FetchTranslationResultsSettledLoading(w, p, cl, outcome) ==
  IF outcome.tag = "value"
  THEN [w EXCEPT !.ts.progress = 100, !.ts.status = "completed",
                 !.ts.translatedText = outcome.data.translatedText,
                 !.ts.lastStatusUpdate = "set", !.touched = TRUE,
                 !.successToasts = @ + 1]
  ELSE [w EXCEPT !.ts.isLoading = FALSE, !.ts.status = "failed",
                 !.ts.error = outcome.message, !.touched = TRUE]

\* fetchTranslationResults after its await.  The errors getTranslationResult
\* throws are plain Error objects without a response, so the branch on
\* error.response.status === 401 is never taken.
FetchTranslationResultsSettled(w, p, cl, outcome) ==
  IF outcome.tag = "value"
  THEN [w EXCEPT !.ts = [isLoading |-> FALSE, progress |-> 100, status |-> "completed",
                         error |-> Null, translatedText |-> outcome.data.translatedText,
                         fileName |-> outcome.data.originalFileName,
                         direction |-> outcome.data.direction, processId |-> p,
                         currentPage |-> outcome.data.currentPage,
                         totalPages |-> outcome.data.totalPages,
                         lastStatusUpdate |-> "set"],
                !.touched = TRUE,
                !.successToasts = @ + 1]
  ELSE IF outcome.message = MsgNotYetComplete
  THEN SetPollTimer([w EXCEPT !.ts.status = "in_progress",
                              !.ts.lastStatusUpdate = "set",
                              !.touched = TRUE],
                    "resume", cl)
  ELSE [w EXCEPT !.ts.isLoading = FALSE, !.ts.status = "failed",
                 !.ts.error = outcome.message,
                 !.touched = TRUE]

\* pollTranslationStatus after its await: the try branch
PollStatusReceived(w, cl, statusData) ==
  LET w1 == [w EXCEPT !.cf = 0,
                      !.ts.progress = statusData.progress,
                      !.ts.status = statusData.status,
                      !.ts.currentPage = statusData.currentPage,
                      !.ts.totalPages = statusData.totalPages,
                      !.ts.lastStatusUpdate = "set",
                      !.touched = TRUE]
  IN IF statusData.status = "completed"
     THEN FetchTranslationResults(w1, cl.processId, cl)
     ELSE IF statusData.status = "failed"
     THEN [w1 EXCEPT !.ts.isLoading = FALSE, !.ts.error = MsgTranslationFailed,
                     !.ts.status = "failed"]
     ELSE SetPollTimer(w1, "interval", cl)

\* pollTranslationStatus after its await: the catch branch
PollStatusFailed(w, cl) ==
  LET w1 == [w EXCEPT !.cf = @ + 1] IN
  IF cl.cf >= FailureCeiling
  THEN [w1 EXCEPT !.ts.isLoading = FALSE, !.ts.error = MsgLostConnection,
                  !.ts.status = "unknown", !.touched = TRUE]
  ELSE SetPollTimer(w1, "interval", cl)

PollSettled(w, cl, outcome) ==
  IF outcome.tag = "value" THEN PollStatusReceived(w, cl, outcome.data)
  ELSE PollStatusFailed(w, cl)

\* variant: the effect runs its cleanup but starts no timer
StartPollingEffectNoTimer(old, w) ==
  IF old.unmounted THEN [w EXCEPT !.ts = old.ts, !.cf = old.cf]
  ELSE IF ~(w.touched \/ w.cf # old.cf) THEN w
  ELSE IF old.ts.processId # NoPid /\ old.ts.isLoading /\ w.ref # 0
       THEN ClearTimeout(w, w.ref) ELSE w

\* The start-polling effect.  It runs again when one of processId, isLoading
\* and pollTranslationStatus changed, and pollTranslationStatus changes with
\* every new translationStatus object and every new consecFailures value.
\* The run before returned a cleanup only if a job was loading then.
\* An unmounted component drops the state updates of the task and renders no
\* more, so no effect runs.
StartPollingEffect(old, w) ==
  IF old.unmounted THEN [w EXCEPT !.ts = old.ts, !.cf = old.cf]
  ELSE IF ~(w.touched \/ w.cf # old.cf) THEN w
  ELSE LET w1 == IF old.ts.processId # NoPid /\ old.ts.isLoading /\ w.ref # 0
                 THEN ClearTimeout(w, w.ref) ELSE w
       IN IF w1.ts.processId # NoPid /\ w1.ts.isLoading
          THEN SetPollTimer(w1, "start", Closure(w1))
          ELSE w1

\* Variant of onTranslate without the test of translationStatus.isLoading
OnTranslateUnchecked(w, file, fromLang, toLang) ==
  IF file = Null THEN w
  ELSE IF fromLang = Null \/ toLang = Null THEN w
  ELSE [Interceptor(w) EXCEPT
          !.ts = [isLoading |-> TRUE, progress |-> 0, status |-> "pending",
                  error |-> Null, translatedText |-> Null, fileName |-> file,
                  direction |-> IF toLang \in {"fa", "ar"} THEN "rtl" ELSE "ltr",
                  processId |-> NoPid, currentPage |-> 0, totalPages |-> 0,
                  lastStatusUpdate |-> "set"],
          !.cf = 0, !.touched = TRUE, !.submitting = @ + 1, !.jobs = @ + 1]

\* onTranslate up to its await (its toasts are not modelled, only the
\* 'Translation completed!' toast is counted)
OnTranslate(w, file, fromLang, toLang) ==
  IF file = Null THEN w
  ELSE IF fromLang = Null \/ toLang = Null THEN w
  ELSE IF w.ts.isLoading THEN w
  ELSE LET w1 == Interceptor(w) IN
       [w1 EXCEPT !.ts = [isLoading |-> TRUE, progress |-> 0, status |-> "pending",
                          error |-> Null, translatedText |-> Null, fileName |-> file,
                          direction |-> IF toLang \in {"fa", "ar"} THEN "rtl" ELSE "ltr",
                          processId |-> NoPid, currentPage |-> 0, totalPages |-> 0,
                          lastStatusUpdate |-> "set"],
                  !.cf = 0, !.touched = TRUE,
                  !.submitting = @ + 1, !.jobs = @ + 1]

\* onTranslate after its await, initiateTranslation resolved with response
OnTranslateStarted(w, response) ==
  IF response.processId = NoPid
  THEN [w EXCEPT !.ts.isLoading = FALSE, !.ts.status = "failed",
                 !.ts.error = MsgNoProcessId, !.touched = TRUE]
  ELSE [w EXCEPT !.ts.processId = response.processId,
                 !.ts.status = IF response.status = Null THEN "pending"
                               ELSE response.status,
                 !.ts.lastStatusUpdate = "set", !.touched = TRUE]

\* onTranslate after its await, initiateTranslation rejected
OnTranslateFailed(w, message) ==
  [w EXCEPT !.ts.isLoading = FALSE, !.ts.status = "failed", !.ts.error = message,
            !.touched = TRUE]

\* Variant of handleCancel that records no error message
HandleCancelSilent(w) ==
  LET w1 == IF w.ref # 0 THEN [ClearTimeout(w, w.ref) EXCEPT !.ref = 0] ELSE w IN
  [w1 EXCEPT !.ts.isLoading = FALSE, !.ts.status = "cancelled",
             !.touched = TRUE]

\* handleCancel
HandleCancel(w) ==
  LET w1 == IF w.ref # 0 THEN [ClearTimeout(w, w.ref) EXCEPT !.ref = 0] ELSE w IN
  [w1 EXCEPT !.ts.isLoading = FALSE, !.ts.status = "cancelled",
             !.ts.error = MsgCancelled, !.touched = TRUE]

\* handleRetryPolling; the pollTranslationStatus it calls is the one of the
\* render the button was drawn in
HandleRetryPolling(w) ==
  IF w.ts.processId = NoPid THEN w
  ELSE LET w1 == [w EXCEPT !.cf = 0, !.ts.isLoading = TRUE, !.ts.error = Null,
                           !.ts.status = IF @ \in {"failed", "unknown"}
                                         THEN "in_progress" ELSE @,
                           !.ts.lastStatusUpdate = "set",
                           !.touched = TRUE]
       IN PollTranslationStatus(w1, Closure(w))

\* The callback of the stuck-translation interval, once no status update
\* arrived for two minutes
StuckCheck(w) ==
  IF w.ref # 0
  THEN SetPollTimer(ClearTimeout(w, w.ref), "watchdog", Closure(w))
  ELSE w

----------------------------------------------------------------------------
\* documentService.getTranslationResult of the de-duplicating service
\* (src/unnamed/part_003): one key per processId

GetTranslationResult3(w, p, waiter) ==
  LET key == ResultKey(p) IN
  IF w.activeRequests[key] # NoReq
  THEN [w EXCEPT !.activeRequests[key].waiters = Append(@, waiter)]
  ELSE LET w1 == [w EXCEPT !.activeRequests[key] =
                    [stage |-> "first", waiters |-> <<waiter>>, gets |-> 0]]
       IN IssueGet(w1, key)

----------------------------------------------------------------------------
\* The translation page with stall detection and simulated progress
\* (src/unnamed/part_001, the page starting at line 499) on top of the
\* de-duplicating document service (src/unnamed/part_003).
\*
\* timeCounter, the seconds since the last status update, is kept as a level:
\* 0 for zero seconds, 1 for 1..30, 2 for 31..60 and 3 for more than 60.

Min(a, b) == IF a < b THEN a ELSE b

NoSimulation == [active |-> FALSE, value |-> 0, page |-> 0, total |-> 0]

\* setSimulatedProgress({active: false, ...}) and clearInterval(forcedProgressRef.current)
StopSimulation(w) ==
  [w EXCEPT !.simulatedProgress = NoSimulation, !.forcedProgress = FALSE]

\* startSimulatedProgress
StartSimulatedProgress(w) ==
  [w EXCEPT !.forcedProgress = TRUE,
            !.simulatedProgress =
               [active |-> TRUE, value |-> 5, page |-> 1,
                total |-> IF w.ts.fileName = "doc.pdf" THEN 5 ELSE 1]]

\* The callback of the forced-progress interval (every 3 s)
SimulatedProgressTick(w) ==
  LET prev == w.simulatedProgress IN
  IF prev.value >= 90 THEN w
  ELSE LET nextPage == IF prev.total > 0 /\ prev.value * prev.total > prev.page * 100
                       THEN Min(prev.page + 1, prev.total) ELSE prev.page
       IN [w EXCEPT !.simulatedProgress =
             [prev EXCEPT !.value = Min(prev.value + 1, 90), !.page = nextPage]]

\* getProgressPercentage
GetProgressPercentage(w) ==
  IF w.simulatedProgress.active THEN w.simulatedProgress.value ELSE w.ts.progress

\* pollTranslationStatus up to its await
PollTranslationStatusB(w, cl) ==
  IF cl.processId = NoPid \/ ~cl.isLoading THEN w
  ELSE CheckTranslationStatus(w, cl.processId,
                              [kind |-> "pollB", id |-> cl.processId, cl |-> cl])

\* fetchTranslationResults up to its await
FetchTranslationResultsB(w, p, cl) ==
  GetTranslationResult3(w, p, [kind |-> "fetchB", id |-> p, cl |-> cl])

\* fetchTranslationResults after its await
FetchTranslationResultsSettledB(w, p, cl, outcome) ==
  IF outcome.tag = "value"
  THEN LET w1 ==
         [w EXCEPT !.ts = [isLoading |-> FALSE, progress |-> 100, status |-> "completed",
                           error |-> Null, translatedText |-> outcome.data.translatedText,
                           fileName |-> outcome.data.originalFileName,
                           direction |-> outcome.data.direction, processId |-> p,
                           currentPage |-> outcome.data.currentPage,
                           totalPages |-> outcome.data.totalPages,
                           lastStatusUpdate |-> "set"],
                  !.touched = TRUE, !.stamped = TRUE,
                  !.successToasts = @ + 1]
       IN IF cl.simActive THEN StopSimulation(w1) ELSE w1
  ELSE IF outcome.message = MsgNotYetComplete
  THEN SetPollTimer([w EXCEPT !.ts.status = "in_progress",
                              !.ts.lastStatusUpdate = "set",
                              !.touched = TRUE, !.stamped = TRUE],
                    "resume", cl)
  ELSE [w EXCEPT !.ts.isLoading = FALSE, !.ts.status = "failed",
                 !.ts.error = outcome.message, !.touched = TRUE]

\* pollTranslationStatus after its await: the try branch
PollStatusReceivedB(w, cl, statusData) ==
  LET isFallback == statusData.isFallback
      w1 == [w EXCEPT !.lastFallbackStatus = isFallback]
      w2 == IF isFallback THEN w1
            ELSE LET w3 == [w1 EXCEPT !.cf = 0, !.statusCheckStalled = FALSE]
                 IN IF cl.simActive THEN StopSimulation(w3) ELSE w3
      w4 == [w2 EXCEPT !.ts.progress = statusData.progress,
                       !.ts.status = statusData.status,
                       !.ts.currentPage = statusData.currentPage,
                       !.ts.totalPages = statusData.totalPages,
                       !.ts.lastStatusUpdate = "set",
                       !.touched = TRUE, !.stamped = TRUE]
  IN IF statusData.status = "completed"
     THEN FetchTranslationResultsB(w4, cl.processId, cl)
     ELSE IF statusData.status = "failed"
     THEN [w4 EXCEPT !.ts.isLoading = FALSE, !.ts.error = MsgTranslationFailed,
                     !.ts.status = "failed"]
     ELSE SetPollTimer(w4, "interval", cl)

PollSettledB(w, cl, outcome) ==
  IF outcome.tag = "value" THEN PollStatusReceivedB(w, cl, outcome.data)
  ELSE PollStatusFailed(w, cl)

\* The time-counter effect: it runs again when isLoading, lastStatusUpdate or
\* progress changed.  Its interval callback keeps the simulatedProgress.active
\* of the render the effect ran in.
TimeCounterEffect(old, w) ==
  IF ~(w.stamped \/ w.ts.isLoading # old.ts.isLoading \/ w.ts.progress # old.ts.progress)
  THEN w
  ELSE IF w.ts.isLoading /\ w.ts.lastStatusUpdate # Null
  THEN [w EXCEPT !.timeCounter = IF w.stamped THEN 0 ELSE @,
                 !.tickSimActive = w.simulatedProgress.active]
  ELSE [StopSimulation(w) EXCEPT !.statusCheckStalled = FALSE]

\* The start-polling effect of this page: pollTranslationStatus also changes
\* with simulatedProgress.active, timeCounter and (through getPollInterval)
\* statusCheckStalled.
StartPollingEffectB(old, w) ==
  IF ~(\/ w.touched \/ w.ticked
       \/ w.cf # old.cf
       \/ w.simulatedProgress.active # old.simulatedProgress.active
       \/ w.timeCounter # old.timeCounter
       \/ w.statusCheckStalled # old.statusCheckStalled)
  THEN w
  ELSE LET w1 == IF old.ts.processId # NoPid /\ old.ts.isLoading /\ w.ref # 0
                 THEN ClearTimeout(w, w.ref) ELSE w
       IN IF w1.ts.processId # NoPid /\ w1.ts.isLoading
          THEN SetPollTimer(w1, "start", Closure(w1))
          ELSE w1

\* The render after a task and its effects, in the order of their declaration
EffectsB(old, w) == StartPollingEffectB(old, TimeCounterEffect(old, w))

\* The callback of the one-second interval of the time-counter effect
\* The callback of the one-second interval calls startSimulatedProgress
StartsSimulation(w, level) ==
  level >= 2 /\ w.ts.progress = 0 /\ ~w.tickSimActive

TimeCounterTick(w, level) ==
  LET w1 == [w EXCEPT !.timeCounter = level, !.ticked = TRUE] IN
  IF level >= 2
  THEN LET w2 == [w1 EXCEPT !.statusCheckStalled = TRUE]
       IN IF StartsSimulation(w, level)
          THEN StartSimulatedProgress(w2) ELSE w2
  ELSE w1

\* onTranslate up to its await
OnTranslateB(w, file, fromLang, toLang) ==
  IF file = Null THEN w
  ELSE IF fromLang = Null \/ toLang = Null THEN w
  ELSE IF w.ts.isLoading THEN w
  ELSE LET w1 == Interceptor(w) IN
       [w1 EXCEPT !.ts = [isLoading |-> TRUE, progress |-> 0, status |-> "pending",
                          error |-> Null, translatedText |-> Null, fileName |-> file,
                          direction |-> IF toLang \in {"fa", "ar"} THEN "rtl" ELSE "ltr",
                          processId |-> NoPid, currentPage |-> 0, totalPages |-> 0,
                          lastStatusUpdate |-> "set"],
                  !.cf = 0, !.lastFallbackStatus = FALSE, !.statusCheckStalled = FALSE,
                  !.simulatedProgress = NoSimulation,
                  !.touched = TRUE, !.stamped = TRUE,
                  !.submitting = @ + 1, !.jobs = @ + 1]

\* onTranslate after its await, initiateTranslation resolved with response
OnTranslateStartedB(w, response) ==
  IF response.processId = NoPid
  THEN [w EXCEPT !.ts.isLoading = FALSE, !.ts.status = "failed",
                 !.ts.error = MsgNoProcessId, !.touched = TRUE]
  ELSE [w EXCEPT !.ts.processId = response.processId,
                 !.ts.status = IF response.status = Null THEN "pending"
                               ELSE response.status,
                 !.ts.lastStatusUpdate = "set", !.touched = TRUE, !.stamped = TRUE]

\* handleCancel
HandleCancelB(w) ==
  LET w1 == IF w.ref # 0 THEN [ClearTimeout(w, w.ref) EXCEPT !.ref = 0] ELSE w IN
  [w1 EXCEPT !.forcedProgress = FALSE,
             !.ts.isLoading = FALSE, !.ts.status = "cancelled",
             !.ts.error = MsgCancelled, !.touched = TRUE,
             !.simulatedProgress = NoSimulation]

\* handleRetryPolling
HandleRetryPollingB(w) ==
  IF w.ts.processId = NoPid THEN w
  ELSE LET w1 == [w EXCEPT !.cf = 0, !.statusCheckStalled = FALSE,
                           !.ts.isLoading = TRUE, !.ts.error = Null,
                           !.ts.status = IF @ \in {"failed", "unknown"}
                                         THEN "in_progress" ELSE @,
                           !.ts.lastStatusUpdate = "set",
                           !.touched = TRUE, !.stamped = TRUE]
       IN PollTranslationStatusB(w1, Closure(w))

----------------------------------------------------------------------------
\* The retryCount variant of the page (src/unnamed/part_001, lines 1-498).
\* consecFailures holds its retryCount; its translationStatus has no
\* lastStatusUpdate.

RetryCeiling == 10

\* pollStatus up to its await
PollStatusR(w, cl) ==
  IF cl.processId = NoPid \/ ~cl.isLoading THEN w
  ELSE ApiCheckTranslationStatus(w, cl.processId, cl)

\* fetchTranslationResults up to its await
FetchTranslationResultsR(w, p) ==
  GetTranslationResult(w, p, FALSE, [kind |-> "fetchR", id |-> p, cl |-> NoClosure])

\* fetchTranslationResults after its await; the timer of the 'not yet
\* complete' branch calls setRetryCount(0)
FetchTranslationResultsSettledR(w, p, outcome) ==
  IF outcome.tag = "value"
  THEN [w EXCEPT !.ts = [isLoading |-> FALSE, progress |-> 100, status |-> "completed",
                         error |-> Null, translatedText |-> outcome.data.translatedText,
                         fileName |-> outcome.data.originalFileName,
                         direction |-> outcome.data.direction, processId |-> p,
                         currentPage |-> outcome.data.currentPage,
                         totalPages |-> outcome.data.totalPages,
                         lastStatusUpdate |-> w.ts.lastStatusUpdate],
                !.touched = TRUE,
                !.successToasts = @ + 1]
  ELSE IF outcome.message = MsgNotYetComplete
  THEN SetPollTimer([w EXCEPT !.ts.status = "in_progress", !.touched = TRUE],
                    "resetRetry", NoClosure)
  ELSE [w EXCEPT !.ts.isLoading = FALSE, !.ts.status = "failed",
                 !.ts.error = outcome.message, !.touched = TRUE]

\* The callback of that timer
ResetRetryCount(w) == [w EXCEPT !.cf = 0]

\* pollStatus after its await: the try branch
PollStatusReceivedR(w, cl, statusData) ==
  LET w1 == [w EXCEPT !.cf = 0,
                      !.ts.progress = statusData.progress,
                      !.ts.status = statusData.status,
                      !.ts.currentPage = statusData.currentPage,
                      !.ts.totalPages = statusData.totalPages,
                      !.touched = TRUE]
  IN IF statusData.status = "completed"
     THEN FetchTranslationResultsR(w1, cl.processId)
     ELSE IF statusData.status = "failed"
     THEN [w1 EXCEPT !.ts.isLoading = FALSE, !.ts.error = MsgTranslationFailed,
                     !.ts.status = "failed"]
     ELSE SetPollTimer(w1, "interval", cl)

\* pollStatus after its await: the catch branch
PollStatusFailedR(w, cl) ==
  LET newRetryCount == cl.cf + 1
      w1 == [w EXCEPT !.cf = newRetryCount] IN
  IF newRetryCount > RetryCeiling
  THEN [w1 EXCEPT !.ts.isLoading = FALSE, !.ts.error = MsgLostConnection,
                  !.ts.status = "unknown", !.touched = TRUE]
  ELSE SetPollTimer(w1, "interval", cl)

PollSettledR(w, cl, outcome) ==
  IF outcome.tag = "value" THEN PollStatusReceivedR(w, cl, outcome.data)
  ELSE PollStatusFailedR(w, cl)

\* The polling effect: it runs again when processId, isLoading or retryCount
\* changed; its cleanup clears the timer the ref names
PollingEffectR(old, w) ==
  IF /\ w.ts.processId = old.ts.processId
     /\ w.ts.isLoading = old.ts.isLoading
     /\ w.cf = old.cf
  THEN w
  ELSE LET w1 == IF w.ref # 0 THEN ClearTimeout(w, w.ref) ELSE w
       IN IF w1.ts.processId # NoPid /\ w1.ts.isLoading
          THEN SetPollTimer(w1, "start", Closure(w1))
          ELSE w1

\* onTranslate up to its await
OnTranslateR(w, file, fromLang, toLang) ==
  IF file = Null THEN w
  ELSE IF fromLang = Null \/ toLang = Null THEN w
  ELSE IF w.ts.isLoading THEN w
  ELSE [Interceptor(w) EXCEPT
          !.ts = [isLoading |-> TRUE, progress |-> 0, status |-> "pending",
                  error |-> Null, translatedText |-> Null, fileName |-> file,
                  direction |-> IF toLang \in {"fa", "ar"} THEN "rtl" ELSE "ltr",
                  processId |-> NoPid, currentPage |-> 0, totalPages |-> 0,
                  lastStatusUpdate |-> Null],
          !.touched = TRUE, !.submitting = @ + 1, !.jobs = @ + 1]

\* onTranslate after its await, initiateTranslation resolved with response
OnTranslateStartedR(w, response) ==
  IF response.processId = NoPid
  THEN [w EXCEPT !.ts.isLoading = FALSE, !.ts.status = "failed",
                 !.ts.error = MsgNoProcessId, !.touched = TRUE]
  ELSE [w EXCEPT !.cf = 0,
                 !.ts.processId = response.processId,
                 !.ts.status = IF response.status = Null THEN "pending"
                               ELSE response.status,
                 !.touched = TRUE]

----------------------------------------------------------------------------
\* A promise settles: each awaiting continuation runs, in the order of the calls
DeliverOne(w, waiter, outcome) ==
  CASE waiter.kind = "caller" ->
         [w EXCEPT !.calls[waiter.id] =
            [state |-> "settled", pid |-> @.pid, partial |-> @.partial, leader |-> 0,
             outcome |-> outcome]]
    [] waiter.kind = "fetch" ->
         FetchTranslationResultsSettled(w, waiter.id, waiter.cl, outcome)
    [] waiter.kind = "pollB" -> PollSettledB(w, waiter.cl, outcome)
    [] waiter.kind = "fetchB" ->
         FetchTranslationResultsSettledB(w, waiter.id, waiter.cl, outcome)
    [] waiter.kind = "fetchR" ->
         FetchTranslationResultsSettledR(w, waiter.id, outcome)
    [] OTHER -> w

RECURSIVE Deliver(_, _, _)
Deliver(w, waiters, outcome) ==
  IF waiters = <<>> THEN w
  ELSE Deliver(DeliverOne(w, Head(waiters), outcome), Tail(waiters), outcome)

\* variant: the promise settles but its key stays in the map
SettleKeepingKey(w, key, outcome) ==
  Deliver(w, w.activeRequests[key].waiters, outcome)

\* The async request body ends (its finally block removes the key) and the
\* promise settles for everyone who holds it.
Settle(w, key, outcome) ==
  LET waiters == w.activeRequests[key].waiters
      w1 == [w EXCEPT !.activeRequests[key] = NoReq]
  IN Deliver(w1, waiters, outcome)

----------------------------------------------------------------------------
\* The request body resumes with the answer to its first GET
CheckStatusAnswered(w0, p, a, d) ==
  LET key == StatusKey(p)
      w == Answered(w0, key) IN
  IF HasResponse(a) /\ a.code = 200
  THEN Settle(UpdateLastKnownStatus(w, p, d), key, Value(d))
  ELSE IF IsTimeout(a) \/ (HasResponse(a) /\ a.code = 503)
  THEN Settle(w, key, Value(CreateFallbackStatus(w, p)))
  ELSE IF HasResponse(a) /\ a.code = 401
  THEN HandleAuthError(w, key)
  ELSE IF HasResponse(a) /\ a.code >= 500
  THEN Settle(w, key, Value(CreateFallbackStatus(w, p)))
  ELSE IF HasResponse(a) /\ a.code = 404
  THEN Settle(w, key, Error("Translation process not found", 404))
  ELSE Settle(w, key, Error("Failed to check translation status",
                            IF HasResponse(a) THEN a.code ELSE 500))

\* _handleAuthError after its wait: retryCallback issues the GET again
CheckStatusRetry(w, p) ==
  LET key == StatusKey(p) IN
  IssueGet([w EXCEPT !.activeRequests[key].stage = "retry"], key)

\* Variant of the retry that answers with the cached status whatever arrives
CheckStatusRetryAnsweredCached(w0, p, a, d) ==
  LET key == StatusKey(p)
      w == Answered(w0, key) IN
  Settle(w, key, Value(CreateFallbackStatus(w, p)))

\* The answer to the retry: a 200 is recorded and returned, anything else is
\* rethrown by _handleAuthError and caught into a fallback status.
CheckStatusRetryAnswered(w0, p, a, d) ==
  LET key == StatusKey(p)
      w == Answered(w0, key) IN
  IF HasResponse(a) /\ a.code = 200
  THEN Settle(UpdateLastKnownStatus(w, p, d), key, Value(d))
  ELSE Settle(w, key, Value(CreateFallbackStatus(w, p)))

----------------------------------------------------------------------------
\* The async body of getTranslationResult (src/services/api.js)

\* The body of a 200 answer to a result request
ResultData(allowPartial) ==
  [translatedText |-> IF allowPartial THEN "partial html" ELSE "html",
   originalFileName |-> "doc.pdf", direction |-> "ltr", currentPage |-> 5, totalPages |-> 5, progress |-> 90]

GetResultAnswered(w0, p, allowPartial, a) ==
  LET key == ResultKeyMode(p, allowPartial)
      w == Answered(w0, key)
      d == ResultData(allowPartial) IN
  IF HasResponse(a) /\ a.code = 200
  THEN Settle(UpdateLastKnownStatus(w, p,
                [status |-> IF allowPartial THEN "partial" ELSE "completed",
                 progress |-> IF allowPartial THEN Min(95, d.progress) ELSE 100,
                 currentPage |-> d.currentPage, totalPages |-> d.totalPages]),
              key, Value(d))
  ELSE IF IsTimeout(a)
  THEN Settle(w, key, Error(MsgTimedOut, 0))
  ELSE IF HasResponse(a) /\ a.code = 401
  THEN HandleAuthError(w, key)
  ELSE IF HasResponse(a) /\ a.code = 404
  THEN Settle(w, key, Error(MsgNotFound, 0))
  ELSE IF HasResponse(a) /\ a.code = 400
  THEN Settle(w, key, Error(MsgNotYetComplete, 0))
  ELSE Settle(w, key, Error(MsgResultFailed, 0))

GetResultRetry(w, p, allowPartial) ==
  LET key == ResultKeyMode(p, allowPartial) IN
  IssueGet([w EXCEPT !.activeRequests[key].stage = "retry"], key)

\* A failed retry is swallowed and the original 401 falls through to the
\* generic error.
GetResultRetryAnswered(w0, p, allowPartial, a) ==
  LET key == ResultKeyMode(p, allowPartial)
      w == Answered(w0, key) IN
  IF HasResponse(a) /\ a.code = 200
  THEN Settle(w, key, Value(ResultData(allowPartial)))
  ELSE Settle(w, key, Error(MsgResultFailed, 0))

----------------------------------------------------------------------------
\* Actions of the service driven by direct callers

\* ghost: the earliest caller still awaiting p, if any, else the caller itself
LeaderFor(c, p) ==
  LET waiting == {d \in Callers : calls[d].state = "waiting" /\ calls[d].pid = p}
  IN IF waiting = {} THEN c
     ELSE CHOOSE d \in waiting : calls[d].leader = d

CallStatus(c, p) ==
  /\ calls[c].state # "waiting"
  /\ TotalGets(World) < MaxGets
  /\ LET w1 == [World EXCEPT !.calls[c] =
                  [state |-> "waiting", pid |-> p, partial |-> FALSE,
                   leader |-> LeaderFor(c, p), outcome |-> NoOutcome]]
     IN Commit(CheckTranslationStatus(w1, p, CallerWaiter(c)))

\* Payloads the status endpoint may send to a direct caller
AnyStatusData == {StatusData(ix) : ix \in 1..Len(Script)}

StatusAnswer(p, a, d) ==
  /\ activeRequests[StatusKey(p)].stage = "first"
  /\ Commit(CheckStatusAnswered(World, p, a, d))

StatusRetryFires(p) ==
  /\ activeRequests[StatusKey(p)].stage = "authWait"
  /\ Commit(CheckStatusRetry(World, p))

StatusRetryAnswer(p, a, d) ==
  /\ activeRequests[StatusKey(p)].stage = "retry"
  /\ Commit(CheckStatusRetryAnswered(World, p, a, d))

InitService ==
  /\ authToken = TRUE
  /\ activeRequests = [k \in Keys |-> NoReq]
  /\ lastKnownStatus = [p \in Pids |-> NoStatus]
  /\ netCount = [k \in Keys |-> 0]
  /\ inFlight = [k \in Keys |-> 0]
  /\ calls = [c \in Callers |-> IdleCall]
  /\ server = [p \in Pids |-> PendingIx]
  /\ serverUp = TRUE
  /\ InitPage
  /\ InitAxios

\* An answer with the payload it carries (only a 200 carries one)
StatusAnswers ==
  {<<Ok200, d>> : d \in AnyStatusData} \cup {<<a, NoData>> : a \in Answers \ {Ok200}}

NextDedup ==
  \/ \E c \in Callers, p \in CallerPids : CallStatus(c, p)
  \/ \E p \in CallerPids, ad \in StatusAnswers : StatusAnswer(p, ad[1], ad[2])
  \/ \E p \in CallerPids : StatusRetryFires(p)
  \/ \E p \in CallerPids, ad \in StatusAnswers : StatusRetryAnswer(p, ad[1], ad[2])

SpecDedup == InitService /\ [][NextDedup]_vars

----------------------------------------------------------------------------
\* Direct callers of getTranslationResult (src/services/api.js)

CallResult(c, p, allowPartial) ==
  /\ calls[c].state # "waiting"
  /\ TotalGets(World) < MaxGets
  /\ LET w1 == [World EXCEPT !.calls[c] =
                  [state |-> "waiting", pid |-> p, partial |-> allowPartial,
                   leader |-> c, outcome |-> NoOutcome]]
     IN Commit(GetTranslationResult(w1, p, allowPartial, CallerWaiter(c)))

ResultAnswer(p, allowPartial, a) ==
  /\ activeRequests[ResultKeyMode(p, allowPartial)].stage = "first"
  /\ Commit(GetResultAnswered(World, p, allowPartial, a))

ResultRetryFires(p, allowPartial) ==
  /\ activeRequests[ResultKeyMode(p, allowPartial)].stage = "authWait"
  /\ Commit(GetResultRetry(World, p, allowPartial))

ResultRetryAnswer(p, allowPartial, a) ==
  /\ activeRequests[ResultKeyMode(p, allowPartial)].stage = "retry"
  /\ Commit(GetResultRetryAnswered(World, p, allowPartial, a))

NextResult ==
  \/ \E c \in Callers, p \in CallerPids, m \in BOOLEAN : CallResult(c, p, m)
  \/ \E p \in CallerPids, m \in BOOLEAN, a \in Answers : ResultAnswer(p, m, a)
  \/ \E p \in CallerPids, m \in BOOLEAN : ResultRetryFires(p, m)
  \/ \E p \in CallerPids, m \in BOOLEAN, a \in Answers : ResultRetryAnswer(p, m, a)

SpecResult == InitService /\ [][NextResult]_vars

----------------------------------------------------------------------------
\* The translation page of src/components/DocumentTranslation.jsx: its
\* handlers, timers and the answers of the backend

StatusRequests(w) ==
  LET RECURSIVE Sum(_)
      Sum(S) == IF S = {} THEN 0
                ELSE LET p == CHOOSE p \in S : TRUE
                     IN w.netCount[StatusKey(p)] + Sum(S \ {p})
  IN Sum(Pids)

ResultRequests(w) ==
  LET RECURSIVE Sum(_)
      Sum(S) == IF S = {} THEN 0
                ELSE LET p == CHOOSE p \in S : TRUE
                     IN w.netCount[ResultKeyMode(p, FALSE)] + Sum(S \ {p})
  IN Sum(Pids)

\* The step is taken only within the bounds of the model
CommitPage(w) ==
  \E next \in {w} :
    /\ StatusRequests(next) <= (IF next.serverUp THEN MaxStatusReqs ELSE MaxDownReqs)
    /\ ResultRequests(next) <= MaxResultReqs
    /\ next.jobs <= MaxSubmits
    /\ Commit(next)

Files == {Null, "doc.pdf"}
Languages == {Null, "es", "fa"}

Translate(file, fromLang, toLang) ==
  CommitPage(StartPollingEffect(World, OnTranslate(World, file, fromLang, toLang)))

\* The backend accepts the upload: it creates the next job and answers with
\* its id; the service records the job as pending and onTranslate resumes.
SubmitAccepted(st) ==
  /\ submitting > 0
  /\ LET created == {p \in Pids : server[p] # 0}
         p == Cardinality(created) + 1
         w0 == [World EXCEPT !.submitting = @ - 1, !.server[p] = PendingIx]
         w1 == UpdateLastKnownStatus(w0, p,
                 [status |-> IF st = Null THEN "pending" ELSE st, progress |-> 0,
                  currentPage |-> 0, totalPages |-> 0])
     IN /\ p \in Pids
        /\ CommitPage(StartPollingEffect(World,
                        OnTranslateStarted(w1, [processId |-> p, status |-> st])))

\* The backend answers the upload without a processId, or with an error, or
\* not at all
SubmitRejected(r) ==
  /\ submitting > 0
  /\ LET w0 == [World EXCEPT !.submitting = @ - 1]
     IN CommitPage(StartPollingEffect(World,
          IF r = "noProcessId"
          THEN OnTranslateStarted(w0, [processId |-> NoPid, status |-> Null])
          ELSE OnTranslateFailed(w0, MsgInitiateFailed)))

\* The cancel button is shown while isLoading.  In the scenario of a backend
\* that is down the user waits for the page to give up.
Cancel ==
  /\ translationStatus.isLoading
  /\ serverUp
  /\ CommitPage(StartPollingEffect(World, HandleCancel(World)))

\* The retry button is shown with an error while not loading
RetryPolling ==
  /\ ~translationStatus.isLoading
  /\ translationStatus.error # Null
  /\ CommitPage(StartPollingEffect(World, HandleRetryPolling(World)))

\* A pending setTimeout callback runs pollTranslationStatus
TimerFires(i) ==
  /\ i \in 1..MaxTimers
  /\ timers[i] # NoTimer
  /\ LET w0 == [World EXCEPT !.timers[i] = NoTimer,
                             !.ref = IF @ = i THEN -1 ELSE @]
     IN CommitPage(StartPollingEffect(World, PollTranslationStatus(w0, timers[i].cl)))

\* What the backend answers to the page's requests
PageStatusAnswers == {Ok200, [kind |-> "http", code |-> 503], [kind |-> "timeout", code |-> 0]}
PageResultAnswers == {Ok200, [kind |-> "http", code |-> 400],
                      [kind |-> "timeout", code |-> 0]}

\* The job states the backend can have reached since it was in state ix:
\* pages get translated, the job completes or fails; progress never goes back
Later(ix) ==
  {jx \in 1..Len(Script) :
     \/ jx = ix
     \/ /\ Script[ix].status \in {"pending", "in_progress"}
        /\ jx > ix
        /\ Script[jx].progress >= Script[ix].progress}

\* A status request of the page is answered: a 200 carries the state ix the
\* job has reached by then; while the backend is down the answer is 503
PageStatusAnswer(cl, a, ix) ==
  /\ serverUp \/ (HasResponse(a) /\ a.code = 503)
  /\ a # Ok200 => ix = server[cl.processId]
  /\ LET p == cl.processId
         w0 == [World EXCEPT !.polls = @ (-) SetToBag({cl}),
                             !.inFlight[StatusKey(p)] = @ - 1,
                             !.server[p] = ix]
     IN /\ ix \in Later(server[p])
        /\ CommitPage(StartPollingEffect(World,
                        PollSettled(w0, cl, ApiStatusOutcome(a, StatusData(ix)))))

\* A result request of the page is answered; 200 only for a completed job
PageResultAnswer(p, a) ==
  /\ activeRequests[ResultKeyMode(p, FALSE)].stage = "first"
  /\ (HasResponse(a) /\ a.code = 200) => server[p] = CompletedIx
  /\ LET w0 == [World EXCEPT !.resultLog = Append(@, a.code)]
     IN CommitPage(StartPollingEffect(World, GetResultAnswered(w0, p, FALSE, a)))

\* The stuck-translation interval fires and finds the last status update
\* more than two minutes old.  Every render that changes translationStatus or
\* consecFailures restarts the 30 s interval, and while a job is polled a
\* status request (15 s timeout) settles and changes one of them in less
\* than that, so the interval fires only while an upload is pending.
StuckCheckFires ==
  /\ translationStatus.isLoading
  /\ translationStatus.lastStatusUpdate # Null
  /\ translationStatus.processId = NoPid
  /\ submitting > 0
  /\ CommitPage(StartPollingEffect(World, StuckCheck(World)))

InitPageSpec ==
  /\ authToken = TRUE
  /\ activeRequests = [k \in Keys |-> NoReq]
  /\ lastKnownStatus = [p \in Pids |-> NoStatus]
  /\ netCount = [k \in Keys |-> 0]
  /\ inFlight = [k \in Keys |-> 0]
  /\ calls = [c \in Callers |-> IdleCall]
  /\ server = [p \in Pids |-> 0]
  /\ serverUp \in BOOLEAN
  /\ InitPage
  /\ InitAxios

NextPage ==
  \/ \E file \in Files, fromLang, toLang \in Languages : Translate(file, fromLang, toLang)
  \/ \E st \in {Null, "pending"} : SubmitAccepted(st)
  \/ \E r \in {"noProcessId", "error"} : SubmitRejected(r)
  \/ Cancel
  \/ RetryPolling
  \/ \E i \in 1..MaxTimers : TimerFires(i)
  \/ \E cl \in BagToSet(polls), a \in PageStatusAnswers, ix \in 1..Len(Script) :
       PageStatusAnswer(cl, a, ix)
  \/ \E p \in Pids, a \in PageResultAnswers : PageResultAnswer(p, a)
  \/ StuckCheckFires

SpecPage == InitPageSpec /\ [][NextPage]_vars

\* The async body of getTranslationResult of the de-duplicating service
GetResult3Answered(w0, p, a) ==
  LET key == ResultKey(p)
      w == Answered(w0, key)
      d == ResultData(FALSE) IN
  IF HasResponse(a) /\ a.code = 200
  THEN Settle(UpdateLastKnownStatus(w, p,
                [status |-> "completed", progress |-> 100,
                 currentPage |-> d.currentPage, totalPages |-> d.totalPages]),
              key, Value(d))
  ELSE IF IsTimeout(a)
  THEN Settle(w, key, Error(MsgTimedOut, 0))
  ELSE IF HasResponse(a) /\ a.code = 401
  THEN HandleAuthError(w, key)
  ELSE IF HasResponse(a) /\ a.code = 404
  THEN Settle(w, key, Error(MsgNotFound, 0))
  ELSE IF HasResponse(a) /\ a.code = 400
  THEN Settle(w, key, Error(MsgNotYetComplete, 0))
  ELSE Settle(w, key, Error(MsgResultFailed, 0))

----------------------------------------------------------------------------
\* The page with stall detection (src/unnamed/part_001 from line 499): its
\* handlers, timers, intervals and the answers of the backend

ResultRequests3(w) ==
  LET RECURSIVE Sum(_)
      Sum(S) == IF S = {} THEN 0
                ELSE LET p == CHOOSE p \in S : TRUE
                     IN w.netCount[ResultKey(p)] + Sum(S \ {p})
  IN Sum(Pids)

\* The step is taken only within the bounds of the model
CommitStall(w) ==
  /\ StatusRequests(w) <= (IF w.serverUp THEN MaxStallReqs ELSE MaxDownReqs)
  /\ ResultRequests3(w) <= MaxResultReqs
  /\ w.jobs <= MaxSubmits
  /\ \A k \in Keys : Len(w.activeRequests[k].waiters) <= MaxWaiters
  /\ Commit(w)

StallLanguages == {Null, "fa"}

TranslateB(file, fromLang, toLang) ==
  CommitStall(EffectsB(World, OnTranslateB(World, file, fromLang, toLang)))

\* The backend accepts the upload; initiateTranslation records the job as
\* pending in the last-known-status cache and onTranslate resumes.
SubmitAcceptedB(st) ==
  /\ submitting > 0
  /\ LET created == {p \in Pids : server[p] # 0}
         p == Cardinality(created) + 1
         w0 == [World EXCEPT !.submitting = @ - 1, !.server[p] = PendingIx]
         w1 == UpdateLastKnownStatus(w0, p,
                 [status |-> IF st = Null THEN "pending" ELSE st, progress |-> 0,
                  currentPage |-> 0, totalPages |-> 0])
     IN /\ p \in Pids
        /\ CommitStall(EffectsB(World,
                        OnTranslateStartedB(w1, [processId |-> p, status |-> st])))

SubmitRejectedB(r) ==
  /\ submitting > 0
  /\ LET w0 == [World EXCEPT !.submitting = @ - 1]
     IN CommitStall(EffectsB(World,
          IF r = "noProcessId"
          THEN OnTranslateStartedB(w0, [processId |-> NoPid, status |-> Null])
          ELSE OnTranslateFailed(w0, MsgInitiateFailed)))

\* The cancel button is shown while isLoading.  In the scenario of a backend
\* that is down the user only watches.
CancelB ==
  /\ translationStatus.isLoading
  /\ serverUp
  /\ CommitStall(EffectsB(World, HandleCancelB(World)))

\* The retry button is shown with an error while not loading, and while
\* loading once the last update is more than 60 s old
RetryPollingB ==
  /\ \/ ~translationStatus.isLoading /\ translationStatus.error # Null
     \/ /\ translationStatus.isLoading
        /\ translationStatus.lastStatusUpdate # Null
        /\ timeCounter = 3
        /\ serverUp
  /\ CommitStall(EffectsB(World, HandleRetryPollingB(World)))

TimerFiresB(i) ==
  /\ i \in 1..MaxTimers
  /\ timers[i] # NoTimer
  /\ LET w0 == [World EXCEPT !.timers[i] = NoTimer,
                             !.ref = IF @ = i THEN -1 ELSE @]
     IN CommitStall(EffectsB(World, PollTranslationStatusB(w0, timers[i].cl)))

\* A second goes by on the one-second interval of the time-counter effect
Tick(level) ==
  /\ translationStatus.isLoading
  /\ translationStatus.lastStatusUpdate # Null
  /\ level \in {timeCounter, timeCounter + 1} \ {0}
  /\ level <= 3
  /\ CommitStall(EffectsB(World, TimeCounterTick(World, level)))

\* The forced-progress interval fires, three seconds after it was set: not
\* while the one-second interval sets it anew every second
SimTick ==
  /\ forcedProgressRef
  /\ ~(translationStatus.isLoading /\ StartsSimulation(World, timeCounter))
  /\ simulatedProgress.value < 5 + MaxSimTicks
  /\ CommitStall(EffectsB(World, SimulatedProgressTick(World)))

PageBStatusAnswers == {Ok200, [kind |-> "http", code |-> 401],
                       [kind |-> "http", code |-> 503], [kind |-> "http", code |-> 404]}

\* The first GET of a status check is answered: a 200 carries the state ix
\* the job has reached by then; while the backend is down the answer is 503
StatusAnswerB(p, a, ix) ==
  /\ activeRequests[StatusKey(p)].stage = "first"
  /\ serverUp \/ (HasResponse(a) /\ a.code = 503)
  /\ a # Ok200 => ix = server[p]
  /\ ix \in Later(server[p])
  /\ LET w0 == [World EXCEPT !.server[p] = ix, !.statusLog = Append(@, a.code)]
     IN CommitStall(EffectsB(World, CheckStatusAnswered(w0, p, a, StatusData(ix))))

\* Every answer to the retry other than 200 ends in the cached status
PageBRetryAnswers == {Ok200, [kind |-> "http", code |-> 503]}

StatusRetryFiresB(p) ==
  /\ activeRequests[StatusKey(p)].stage = "authWait"
  /\ CommitStall(CheckStatusRetry(World, p))

StatusRetryAnswerB(p, a, ix) ==
  /\ activeRequests[StatusKey(p)].stage = "retry"
  /\ a # Ok200 => ix = server[p]
  /\ ix \in Later(server[p])
  /\ LET w0 == [World EXCEPT !.server[p] = ix, !.statusLog = Append(@, a.code)]
     IN CommitStall(EffectsB(World, CheckStatusRetryAnswered(w0, p, a, StatusData(ix))))

\* The result request is answered; 200 only for a completed job
ResultAnswerB(p, a) ==
  /\ activeRequests[ResultKey(p)].stage = "first"
  /\ (HasResponse(a) /\ a.code = 200) => server[p] = CompletedIx
  /\ LET w0 == [World EXCEPT !.resultLog = Append(@, a.code)]
     IN CommitStall(EffectsB(World, GetResult3Answered(w0, p, a)))

NextStall ==
  \/ \E file \in Files, fromLang, toLang \in StallLanguages :
       TranslateB(file, fromLang, toLang)
  \/ \E st \in {Null, "pending"} : SubmitAcceptedB(st)
  \/ \E r \in {"noProcessId", "error"} : SubmitRejectedB(r)
  \/ CancelB
  \/ RetryPollingB
  \/ \E i \in 1..MaxTimers : TimerFiresB(i)
  \/ \E level \in 1..3 : Tick(level)
  \/ SimTick
  \/ \E p \in Pids, a \in PageBStatusAnswers, ix \in 1..Len(Script) : StatusAnswerB(p, a, ix)
  \/ \E p \in Pids : StatusRetryFiresB(p)
  \/ \E p \in Pids, a \in PageBRetryAnswers, ix \in 1..Len(Script) :
       StatusRetryAnswerB(p, a, ix)
  \/ \E p \in Pids, a \in PageResultAnswers : ResultAnswerB(p, a)

SpecStall == InitPageSpec /\ [][NextStall]_vars

----------------------------------------------------------------------------
\* The same page with a user who submits a document and then only watches
NextHandsOff ==
  \/ \E file \in Files, fromLang, toLang \in Languages : Translate(file, fromLang, toLang)
  \/ \E st \in {Null, "pending"} : SubmitAccepted(st)
  \/ \E r \in {"noProcessId", "error"} : SubmitRejected(r)
  \/ \E i \in 1..MaxTimers : TimerFires(i)
  \/ \E cl \in BagToSet(polls), a \in PageStatusAnswers, ix \in 1..Len(Script) :
       PageStatusAnswer(cl, a, ix)
  \/ \E p \in Pids, a \in PageResultAnswers : PageResultAnswer(p, a)
  \/ StuckCheckFires

SpecHandsOff == InitPageSpec /\ [][NextHandsOff]_vars

----------------------------------------------------------------------------
\* The axios layer of src/services/api.js (the module from line 151): the
\* token cache, the request interceptor that useApiAuth registers, and the
\* operations of documentService that are not de-duplicated.
\*
\* Time is counted in minutes.  A component using useApiAuth is mounted
\* signed in.  One step is one JavaScript task up to its next await.

pageVars == <<activeRequests, lastKnownStatus, netCount, inFlight, calls, server,
              serverUp, translationStatus, consecFailures, statusCheckTimeoutRef,
              timers, polls, submitting, successToasts, jobs, resultLog,
              lastFallbackStatus, statusCheckStalled, timeCounter, simulatedProgress,
              forcedProgressRef, tickSimActive, statusLog, unmounted,
              pollInterval>>

\* The module state a task of this layer reads and returns
AxWorld ==
  [authToken |-> authToken, tokenExpiryTime |-> tokenExpiryTime, now |-> now,
   requestInterceptorId |-> requestInterceptorId, interceptors |-> interceptors,
   handlers |-> handlers, pendingFetches |-> pendingFetches, mounted |-> mounted,
   reqs |-> reqs, balance |-> balance]

CommitAxios(a) ==
  /\ authToken' = a.authToken
  /\ tokenExpiryTime' = a.tokenExpiryTime
  /\ now' = a.now
  /\ requestInterceptorId' = a.requestInterceptorId
  /\ interceptors' = a.interceptors
  /\ handlers' = a.handlers
  /\ pendingFetches' = a.pendingFetches
  /\ mounted' = a.mounted
  /\ reqs' = a.reqs
  /\ balance' = a.balance
  /\ \A i \in OpCalls : a.reqs[i].posts <= MaxPosts
  /\ a.handlers <= MaxHandlers
  /\ UNCHANGED pageVars

\* tokenIsValid of the request interceptor
TokenIsValid(a) == a.authToken /\ a.tokenExpiryTime # 0 /\ a.now < a.tokenExpiryTime

\* registerAuthInterceptor without the eject of the interceptor registered before
RegisterAuthInterceptorKeeping(a) ==
  LET id == a.handlers + 1 IN
  [a EXCEPT !.interceptors = @ \cup {id}, !.requestInterceptorId = id,
            !.handlers = id, !.pendingFetches = @ + 1]

\* registerAuthInterceptor up to the await of its initial token fetch
RegisterAuthInterceptor(a) ==
  LET id == a.handlers + 1 IN
  [a EXCEPT !.interceptors = (@ \ {a.requestInterceptorId}) \cup {id},
            !.requestInterceptorId = id,
            !.handlers = id,
            !.pendingFetches = @ + 1]

\* registerAuthInterceptor after the await: the initial token is cached
InitialTokenFetched(a, res) ==
  LET a1 == [a EXCEPT !.pendingFetches = @ - 1] IN
  IF res = "token"
  THEN [a1 EXCEPT !.authToken = TRUE, !.tokenExpiryTime = a.now + TokenLifetime]
  ELSE a1

\* The callback of the 50-minute refresh interval
BackgroundRefresh(a, res) ==
  IF res = "token"
  THEN [a EXCEPT !.authToken = TRUE, !.tokenExpiryTime = a.now + TokenLifetime]
  ELSE a

\* The cleanup of the useApiAuth effect
EffectCleanup(a) ==
  IF a.requestInterceptorId # 0
  THEN [a EXCEPT !.interceptors = @ \ {a.requestInterceptorId},
                 !.requestInterceptorId = 0]
  ELSE a

\* The request is handed to the network
OnWire(a, i, header) ==
  [a EXCEPT !.reqs[i].stage = "wire", !.reqs[i].posts = @ + 1,
            !.reqs[i].header = header]

\* The request interceptor without the validity test: a token is fetched for
\* every request
RequestInterceptorAlways(a, i) ==
  [a EXCEPT !.reqs[i].stage = "token", !.reqs[i].startedAt = a.now]

\* The request interceptor up to its await: a valid token is attached, else a
\* fresh one is requested
RequestInterceptor(a, i) ==
  IF TokenIsValid(a)
  THEN OnWire(a, i, a.authToken)
  ELSE [a EXCEPT !.reqs[i].stage = "token", !.reqs[i].startedAt = a.now]

\* The request interceptor after getToken threw, with the header set from
\* the cache all the same
TokenFailedAttaching(a, i) == OnWire(a, i, a.authToken)

\* The request interceptor after getToken threw: the catch logs, the config
\* is returned as it came
TokenFailed(a, i) == OnWire(a, i, FALSE)

\* The request interceptor after its await
TokenReceived(a, i, res) ==
  IF res = "throw" THEN TokenFailed(a, i)
  ELSE LET a1 == IF res = "token"
                 THEN [a EXCEPT !.authToken = TRUE,
                                !.tokenExpiryTime = a.reqs[i].startedAt + TokenLifetime]
                 ELSE a
       IN OnWire(a1, i, a1.authToken)

\* api.post(url, ...): the registered request interceptors run first
ApiPost(a, i) ==
  IF a.interceptors = {} THEN OnWire(a, i, FALSE)
  ELSE RequestInterceptor(a, i)

\* documentService._handleAuthError up to its 500 ms wait
HandleAuthErrorWait(a, i) ==
  [a EXCEPT !.authToken = FALSE, !.tokenExpiryTime = 0, !.reqs[i].stage = "authWait"]

\* A call of initiateTranslation, exportToPdf or exportToDocx up to its await
CallOperation(a, i, op) ==
  ApiPost([a EXCEPT !.reqs[i] = [NoOpCall EXCEPT !.op = op]], i)

SettleOperation(a, i, outcome) ==
  [a EXCEPT !.reqs[i].stage = "done", !.reqs[i].outcome = outcome]

\* initiateTranslation after its await.  The retryCallback is
\* initiateTranslation itself, so the answer to a retry is handled like the
\* answer to the first request; whatever the innermost call returns or throws
\* travels outwards through every _handleAuthError unchanged in kind.
InitiateTranslationAnswered(a, i, code) ==
  IF code = 200 THEN SettleOperation(a, i, "value")
  ELSE IF code = 401 THEN HandleAuthErrorWait(a, i)
  ELSE SettleOperation(a, i, "error")

\* exportToPdf and exportToDocx after their await: the retryCallback is one
\* api.post, whose failure is caught and replaced by the error of the first
ExportAnswered(a, i, code) ==
  IF code = 200 THEN SettleOperation(a, i, "value")
  ELSE IF code = 401 /\ ~a.reqs[i].retry THEN HandleAuthErrorWait(a, i)
  ELSE SettleOperation(a, i, "error")

\* exportToDriveAsPdf and exportToDriveAsDocx after their await: the catch
\* logs and rethrows
DriveExportAnswered(a, i, code) ==
  IF code = 200 THEN SettleOperation(a, i, "value")
  ELSE SettleOperation(a, i, "error")

OperationAnswered(a, i, code) ==
  IF a.reqs[i].op = "initiateTranslation" THEN InitiateTranslationAnswered(a, i, code)
  ELSE IF a.reqs[i].op \in DriveOperations THEN DriveExportAnswered(a, i, code)
  ELSE ExportAnswered(a, i, code)

\* _handleAuthError after its wait: retryCallback()
RetryCallback(a, i) == ApiPost([a EXCEPT !.reqs[i].retry = TRUE], i)

----------------------------------------------------------------------------
\* Actions of the axios layer

Mount(c) ==
  /\ c \notin mounted
  /\ CommitAxios(RegisterAuthInterceptor([AxWorld EXCEPT !.mounted = @ \cup {c}]))

\* A mounted component calls registerAuthInterceptor again (the page does so
\* from an effect after every render)
Reregister(c) ==
  /\ c \in mounted
  /\ CommitAxios(RegisterAuthInterceptor(AxWorld))

InitialTokenAnswers(res) ==
  /\ pendingFetches > 0
  /\ CommitAxios(InitialTokenFetched(AxWorld, res))

RefreshFires(c, res) ==
  /\ c \in mounted
  /\ CommitAxios(BackgroundRefresh(AxWorld, res))

Unmount(c) ==
  /\ c \in mounted
  /\ CommitAxios(EffectCleanup([AxWorld EXCEPT !.mounted = @ \ {c}]))

Advance(d) ==
  /\ now + d <= MaxNow
  /\ CommitAxios([AxWorld EXCEPT !.now = @ + d])

Call(i, op) ==
  /\ reqs[i].stage \in {"idle", "done"}
  /\ CommitAxios(CallOperation(AxWorld, i, op))

ProviderAnswers(i, res) ==
  /\ reqs[i].stage = "token"
  /\ CommitAxios(TokenReceived(AxWorld, i, res))

AuthAnswers == {200, 401, 500}

ServerAnswers(i, code) ==
  /\ reqs[i].stage = "wire"
  /\ CommitAxios(OperationAnswered(AxWorld, i, code))

RetryFires(i) ==
  /\ reqs[i].stage = "authWait"
  /\ CommitAxios(RetryCallback(AxWorld, i))

InitAuth ==
  /\ authToken = FALSE
  /\ InitAxios
  /\ activeRequests = [k \in Keys |-> NoReq]
  /\ lastKnownStatus = [p \in Pids |-> NoStatus]
  /\ netCount = [k \in Keys |-> 0]
  /\ inFlight = [k \in Keys |-> 0]
  /\ calls = [c \in Callers |-> IdleCall]
  /\ server = [p \in Pids |-> 0]
  /\ serverUp = TRUE
  /\ InitPage

NextAuth ==
  \/ \E c \in Components : Mount(c)
  \/ \E c \in Components : Reregister(c)
  \/ \E res \in ProviderResults : InitialTokenAnswers(res)
  \/ \E c \in Components, res \in ProviderResults : RefreshFires(c, res)
  \/ \E c \in Components : Unmount(c)
  \/ \E d \in ClockSteps : Advance(d)
  \/ \E i \in OpCalls, op \in Operations : Call(i, op)
  \/ \E i \in OpCalls, res \in ProviderResults : ProviderAnswers(i, res)
  \/ \E i \in OpCalls, code \in AuthAnswers : ServerAnswers(i, code)
  \/ \E i \in OpCalls : RetryFires(i)

SpecAuth == InitAuth /\ [][NextAuth]_vars

----------------------------------------------------------------------------
\* balanceService.getBalance of src/services/api.js: the authenticated
\* endpoint, then on 401/403 the debug endpoint, then the public endpoint,
\* and the default snapshot for every other failure.

\* The snapshot the outer catch returns
DefaultBalance == [userId |-> "anonymous", pagesBalance |-> 10, pagesUsed |-> 0]

\* Bodies of 200 answers of /balance/me/balance and /balance/public/balance
BalancePayloads == [userId : {"u1", "anonymous"}, pagesBalance : {0, 25}, pagesUsed : {3}]

\* Bodies of 200 answers of /balance/debug/balance
DebugPayloads ==
  [authenticated : BOOLEAN, userId : {"u1", "anonymous"}, pagesBalance : {0, 25},
   pagesUsed : {3}]

\* What the network answers to a GET of getBalance: a body with a 200 (null
\* for a 200 without a body), an HTTP error, or no response
BalanceAnswers ==
  [kind : {"http"}, code : {200}, hasData : {TRUE}, data : BalancePayloads \cup DebugPayloads]
  \cup [kind : {"http"}, code : {200}, hasData : {FALSE}, data : {[userId |-> "none"]}]
  \cup [kind : {"http"}, code : {401, 403, 404, 500}, hasData : {FALSE},
        data : {[userId |-> "none"]}]
  \cup [kind : {"network"}, code : {0}, hasData : {FALSE}, data : {[userId |-> "none"]}]

\* api.get(url) of getBalance: the registered request interceptor runs first
BalanceGet(a, endpoint) ==
  LET a1 == [a EXCEPT !.balance.endpoint = endpoint] IN
  IF a.interceptors = {}
  THEN [a1 EXCEPT !.balance.stage = "wire", !.balance.header = FALSE]
  ELSE IF TokenIsValid(a)
  THEN [a1 EXCEPT !.balance.stage = "wire", !.balance.header = a.authToken]
  ELSE [a1 EXCEPT !.balance.stage = "token", !.balance.startedAt = a.now]

\* The request interceptor after its await, for a GET of getBalance
BalanceTokenReceived(a, res) ==
  IF res = "throw"
  THEN [a EXCEPT !.balance.stage = "wire", !.balance.header = FALSE]
  ELSE LET a1 == IF res = "token"
                 THEN [a EXCEPT !.authToken = TRUE,
                                !.tokenExpiryTime = a.balance.startedAt + TokenLifetime]
                 ELSE a
       IN [a1 EXCEPT !.balance.stage = "wire", !.balance.header = a1.authToken]

\* getBalance up to its first await
GetBalance(a) ==
  BalanceGet([a EXCEPT !.balance = NoBalanceCall], "me")

BalanceReturn(a, payload) ==
  [a EXCEPT !.balance.stage = "done", !.balance.settled = "value",
            !.balance.result = payload]

\* Variant of the outer catch that rethrows
BalanceFailedRethrowing(a) ==
  [a EXCEPT !.balance.stage = "done", !.balance.settled = "error"]

\* The outer catch of getBalance
BalanceFailed(a) == BalanceReturn(a, DefaultBalance)

\* getBalance after an await
GetBalanceAnswered(a, ans) ==
  LET ok == ans.kind = "http" /\ ans.code = 200 IN
  IF a.balance.endpoint = "me"
  THEN IF ok THEN BalanceReturn(a, ans.data)
       ELSE IF ans.kind = "http" /\ ans.code \in {401, 403}
       THEN BalanceGet(a, "debug")
       ELSE BalanceFailed(a)
  ELSE IF a.balance.endpoint = "debug"
  THEN IF ~ok THEN BalanceFailed(a)
       ELSE IF ~ans.hasData THEN BalanceFailed(a)
       ELSE IF "authenticated" \in DOMAIN ans.data /\ ans.data.authenticated
               /\ ans.data.userId # "anonymous"
       THEN BalanceReturn(a, [userId |-> ans.data.userId,
                              pagesBalance |-> ans.data.pagesBalance,
                              pagesUsed |-> ans.data.pagesUsed])
       ELSE BalanceGet(a, "public")
  ELSE IF ok THEN BalanceReturn(a, ans.data)
       ELSE BalanceFailed(a)

CallGetBalance ==
  /\ balance.stage \in {"idle", "done"}
  /\ CommitAxios(GetBalance(AxWorld))

BalanceProviderAnswers(res) ==
  /\ balance.stage = "token"
  /\ CommitAxios(BalanceTokenReceived(AxWorld, res))

BalanceServerAnswers(ans) ==
  /\ balance.stage = "wire"
  /\ CommitAxios(GetBalanceAnswered(AxWorld, ans))

NextBalance ==
  \/ \E c \in Components : Mount(c)
  \/ \E res \in ProviderResults : InitialTokenAnswers(res)
  \/ \E c \in Components : Unmount(c)
  \/ CallGetBalance
  \/ \E res \in ProviderResults : BalanceProviderAnswers(res)
  \/ \E ans \in BalanceAnswers : BalanceServerAnswers(ans)

SpecBalance == InitAuth /\ [][NextBalance]_vars

----------------------------------------------------------------------------
\* C2: outstanding result requests

ResultGetsOnWire(p) ==
  inFlight[ResultKeyMode(p, TRUE)] + inFlight[ResultKeyMode(p, FALSE)]

----------------------------------------------------------------------------
\* C1: de-duplication of status checks

\* ghost: caller c makes a call while an earlier call for the same processId
\* has not settled
JoinsInFlight(c) ==
  /\ calls[c].state # "waiting"
  /\ calls'[c].state = "waiting"
  /\ calls'[c].leader # c

JoinIssuesNoRequest == \A c \in Callers : JoinsInFlight(c) => netCount' = netCount

JoinSettlesLikeLeader ==
  \A c \in Callers :
    (calls[c].state = "waiting" /\ calls[c].leader # c /\ calls'[c].state = "settled")
      => LET l == calls[c].leader IN
         /\ calls[l].state = "waiting"
         /\ calls'[l].state = "settled"
         /\ calls'[l].outcome = calls'[c].outcome

SharedWindows(P(_)) ==
  \A p \in Pids :
    Len(activeRequests[StatusKey(p)].waiters) >= 2 => P(activeRequests[StatusKey(p)])

ExactlyOneGet(r) == r.gets = 1
OneGetPlusAuthRetry(r) == r.gets = (IF r.stage = "retry" THEN 2 ELSE 1)

\* C1 as stated: a checkTranslationStatus(p) call made while an earlier one is
\* unsettled issues no network request and settles with the earlier call's
\* value or error, and two simultaneous calls trigger exactly one GET.
C1_Original ==
  [][JoinIssuesNoRequest /\ JoinSettlesLikeLeader /\ SharedWindows(ExactlyOneGet)']_vars

\* C1 amended: as C1, except that the calls sharing a promise trigger one GET
\* plus the single retry GET when the first GET is answered 401.
C1_Dedup ==
  [][JoinIssuesNoRequest /\ JoinSettlesLikeLeader /\ SharedWindows(OneGetPlusAuthRetry)']_vars

\* Two callers settled with one value after a single GET
C1_Witness ==
  \E c, d \in Callers :
    /\ c # d
    /\ calls[c].state = "settled" /\ calls[d].state = "settled"
    /\ calls[c].pid = calls[d].pid
    /\ calls[c].outcome = calls[d].outcome
    /\ calls[c].outcome.tag = "value"
    /\ netCount[StatusKey(calls[c].pid)] = 1

----------------------------------------------------------------------------
\* C3: displayed progress

\* C3 as stated: while a job is loading, the progress shown to the user never
\* decreases from one state to the next, except in the step that submits a
\* new job.
C3_Original ==
  [][(translationStatus.isLoading /\ jobs' = jobs)
       => translationStatus'.progress >= translationStatus.progress]_vars

----------------------------------------------------------------------------
\* C4: status, translatedText and error

ResultFetchInFlight == \E p \in Pids : activeRequests[ResultKeyMode(p, FALSE)] # NoReq

\* C4 as stated: in every reachable state, status 'completed' comes with a
\* translatedText, and status 'failed', 'cancelled' or 'unknown' comes with an
\* error.
C4_Original ==
  /\ translationStatus.status = "completed" => translationStatus.translatedText # Null
  /\ translationStatus.status \in {"failed", "cancelled", "unknown"}
       => translationStatus.error # Null

\* C4 amended: in every reachable state, status 'completed' comes with a
\* translatedText unless a result fetch is in flight, and status 'failed',
\* 'cancelled' or 'unknown' comes with an error unless isLoading is true.
C4_Settled ==
  /\ translationStatus.status = "completed"
       => (translationStatus.translatedText # Null \/ ResultFetchInFlight)
  /\ translationStatus.status \in {"failed", "cancelled", "unknown"}
       => (translationStatus.error # Null \/ translationStatus.isLoading)

\* The result of a completed job is on the page
C4_Witness ==
  /\ translationStatus.status = "completed"
  /\ ~translationStatus.isLoading
  /\ translationStatus.translatedText # Null
  /\ ~ResultFetchInFlight

----------------------------------------------------------------------------
\* C5: cancel is final

\* C5 as stated: from a state the user's cancel left ('cancelled', not
\* loading), a step that is not a new start by the user keeps status
\* 'cancelled', issues no status request and schedules no poll timer.
C5_Original ==
  [][(/\ translationStatus.status = "cancelled"
      /\ ~translationStatus.isLoading
      /\ ~translationStatus'.isLoading)
       => (/\ translationStatus'.status = "cancelled"
           /\ StatusRequests(World)' = StatusRequests(World)
           /\ \A i \in 1..MaxTimers : timers'[i] # NoTimer => timers'[i] = timers[i])]_vars

----------------------------------------------------------------------------
\* C6: terminal states stop polling

\* C6 as stated: while the status is completed, failed, cancelled or unknown,
\* no poll timer is pending, and a step in which the user starts nothing
\* issues no status request.
C6_Original ==
  /\ [](translationStatus.status \in TerminalStatuses => PendingTimers(World) = {})
  /\ [][(/\ translationStatus.status \in TerminalStatuses
         /\ translationStatus'.isLoading => translationStatus.isLoading)
          => StatusRequests(World)' = StatusRequests(World)]_vars

----------------------------------------------------------------------------
\* C8: a completed status stops polling

\* C8 as stated: while the result request of a job is in flight, no status
\* check is issued.
C8_Original ==
  [][(ResultFetchInFlight /\ ResultFetchInFlight')
       => StatusRequests(World)' = StatusRequests(World)]_vars

----------------------------------------------------------------------------
\* C9: result not yet complete

\* C9 as stated: when the result requests of the one submitted job were
\* answered 400 and then 200, exactly one 'Translation completed!' toast has
\* been shown and the job is completed.
C9_Original ==
  (jobs = 1 /\ resultLog = <<400, 200>>)
    => (successToasts = 1 /\ translationStatus.status = "completed")

----------------------------------------------------------------------------
\* C7 as stated: on the stall page, once a submitted job has had every status
\* check answered with HTTP 503 and more answers than the failure ceiling
\* have arrived, the job is 'unknown' with the lost-connection error,
\* isLoading is false and no poll timer is scheduled.
C7_Original ==
  (/\ ~serverUp
   /\ Len(statusLog) > FailureCeiling + 1
   /\ \A i \in 1..Len(statusLog) : statusLog[i] = 503)
  => /\ translationStatus.status = "unknown"
     /\ translationStatus.error = MsgLostConnection
     /\ ~translationStatus.isLoading
     /\ PendingTimers(World) = {}

----------------------------------------------------------------------------
\* C10 as stated: when a status request is answered 401 and its retry 200,
\* the page counts no failure and shows no error.
C10_Original ==
  [][\A p \in Pids, ix \in 1..Len(Script) :
       StatusRetryAnswerB(p, Ok200, ix) =>
         (consecFailures' = 0 /\ translationStatus'.error = Null)]_vars

\* C10: a 401 answer to a status request clears the cached token and starts
\* the wait for the one retry without another GET; the retry is the second
\* and last GET of the request; a 200 answer to it is stored in the
\* last-known-status cache and returned without the fallback flag, and the
\* page takes it over, resets consecFailures and leaves the error as it was
\* unless the payload itself reports a failed job.
C10_AuthRetry ==
  [][\A p \in Pids, ix \in 1..Len(Script) :
       LET key == StatusKey(p)
           d == StatusData(ix) IN
       /\ StatusAnswerB(p, [kind |-> "http", code |-> 401], ix) =>
            /\ authToken' = FALSE
            /\ activeRequests'[key].stage = "authWait"
            /\ netCount'[key] = netCount[key]
       /\ StatusRetryFiresB(p) =>
            /\ netCount'[key] = netCount[key] + 1
            /\ activeRequests'[key].gets = 2
       /\ StatusRetryAnswerB(p, Ok200, ix) =>
            /\ activeRequests[key].gets = 2
            /\ activeRequests'[key] = NoReq
            /\ netCount'[key] = netCount[key]
            /\ lastKnownStatus'[p] =
                 [status |-> d.status, progress |-> d.progress,
                  currentPage |-> d.currentPage, totalPages |-> d.totalPages]
            /\ lastFallbackStatus' = FALSE
            /\ consecFailures' = 0
            /\ translationStatus'.progress = d.progress
            /\ d.status # "failed" =>
                 /\ translationStatus'.status = d.status
                 /\ translationStatus'.error = translationStatus.error]_vars

\* A status request was answered 401 and its retry 200, and the page shows
\* the payload of the retry with no failure counted and no error
C10_Witness ==
  /\ statusLog = <<401, 200>>
  /\ netCount[StatusKey(1)] = 2
  /\ activeRequests[StatusKey(1)] = NoReq
  /\ lastKnownStatus[1].status = "in_progress"
  /\ translationStatus.status = "in_progress"
  /\ translationStatus.progress = 40
  /\ translationStatus.error = Null
  /\ ~lastFallbackStatus
  /\ consecFailures = 0

----------------------------------------------------------------------------
\* C11 as stated: one call of an operation sends at most two requests, the
\* second being the one automatic retry after a 401.
C11_Original == \A i \in OpCalls : reqs[i].posts <= 2

----------------------------------------------------------------------------
\* C12 as stated: when the first request of a status check and its one retry
\* are both answered 401, every caller of the check is given an error that
\* names the authentication failure (an error carrying the status 401).
C12_Original ==
  [][\A p \in Pids :
       StatusRetryAnswer(p, [kind |-> "http", code |-> 401], NoData) =>
         \A c \in Callers :
           (calls[c].state = "waiting" /\ calls[c].pid = p) =>
             /\ calls'[c].outcome.tag = "error"
             /\ calls'[c].outcome.statusCode = 401]_vars

----------------------------------------------------------------------------
\* C13 as stated: when a status check of the job that is loading is answered
\* 404, the job is marked 'failed' with isLoading false and an error message,
\* and no poll timer is pending afterwards.
C13_Original ==
  [][\A p \in Pids, ix \in 1..Len(Script) :
       (/\ translationStatus.isLoading
        /\ translationStatus.processId = p
        /\ StatusAnswerB(p, [kind |-> "http", code |-> 404], ix))
       => /\ translationStatus'.status = "failed"
          /\ ~translationStatus'.isLoading
          /\ translationStatus'.error # Null
          /\ PendingTimers(World)' = {}]_vars

----------------------------------------------------------------------------
\* C14: fallback status of the de-duplicating checkTranslationStatus

\* The answers the claim is about: a timeout or abort, or a 5xx status
TimeoutOrServerError(a) == IsTimeout(a) \/ (HasResponse(a) /\ a.code >= 500)

\* The snapshot of p as last recorded, tagged as a fallback; pending/0% when
\* none was recorded
SnapshotOrPending(p) ==
  IF lastKnownStatus[p] # NoStatus
  THEN [status |-> lastKnownStatus[p].status, progress |-> lastKnownStatus[p].progress,
        currentPage |-> lastKnownStatus[p].currentPage,
        totalPages |-> lastKnownStatus[p].totalPages, isFallback |-> TRUE]
  ELSE [status |-> "pending", progress |-> 0, currentPage |-> 0, totalPages |-> 0,
        isFallback |-> TRUE]

\* C14: when the status request for p (or its retry after a 401) times out, is
\* aborted or is answered 5xx, every caller of checkTranslationStatus(p) gets
\* a value, the last recorded snapshot of p or pending/0%, tagged isFallback,
\* and the cache is left alone; when it is answered 200 every caller gets the
\* payload without the flag and the cache holds the payload.
C14_Fallback ==
  [][\A p \in Pids :
       LET Waiting(c) == calls[c].state = "waiting" /\ calls[c].pid = p IN
       /\ \A a \in Answers :
            (/\ TimeoutOrServerError(a)
             /\ StatusAnswer(p, a, NoData) \/ StatusRetryAnswer(p, a, NoData))
            => /\ \A c \in Callers :
                    Waiting(c) => calls'[c].outcome = Value(SnapshotOrPending(p))
               /\ lastKnownStatus' = lastKnownStatus
       /\ \A d \in AnyStatusData :
            StatusAnswer(p, Ok200, d)
            => /\ \A c \in Callers : Waiting(c) => calls'[c].outcome = Value(d)
               /\ ~d.isFallback
               /\ lastKnownStatus'[p] =
                    [status |-> d.status, progress |-> d.progress,
                     currentPage |-> d.currentPage, totalPages |-> d.totalPages]]_vars

\* A caller was given the recorded in_progress snapshot of its job as a fallback
C14_Witness ==
  \E c \in Callers :
    /\ calls[c].state = "settled"
    /\ calls[c].outcome.tag = "value"
    /\ calls[c].outcome.data.isFallback
    /\ calls[c].outcome.data.status = "in_progress"
    /\ calls[c].outcome.data.progress = 40
    /\ lastKnownStatus[calls[c].pid].status = "in_progress"

----------------------------------------------------------------------------
\* C15: in every state of the page, onTranslate called without a file, without
\* a source or target language, or while a job is loading, followed by the
\* render it causes, changes nothing: no request is issued and
\* translationStatus, consecFailures and the timers stay as they are.
C15_Rejected ==
  \A file \in Files, fromLang, toLang \in Languages :
    (file = Null \/ fromLang = Null \/ toLang = Null \/ translationStatus.isLoading)
    => StartPollingEffect(World, OnTranslate(World, file, fromLang, toLang)) = World

\* A job is loading with a poll timer pending and a status check in flight
C15_Witness ==
  /\ translationStatus.isLoading
  /\ translationStatus.processId # NoPid
  /\ PendingTimers(World) # {}
  /\ \E p \in Pids : inFlight[StatusKey(p)] > 0

----------------------------------------------------------------------------
\* C16 as stated, for the states in which the page offers the cancel button
\* (isLoading): handleCancel on a job whose status is already completed,
\* failed, cancelled or unknown changes no field of translationStatus and
\* schedules no timer.
C16_Original ==
  (translationStatus.status \in TerminalStatuses /\ translationStatus.isLoading)
  => LET w == StartPollingEffect(World, HandleCancel(World)) IN
     /\ w.ts = translationStatus
     /\ PendingTimers(w) \subseteq PendingTimers(World)

----------------------------------------------------------------------------
\* Scenario A on the page of src/components/DocumentTranslation.jsx: the
\* upload is accepted, the backend answers the status requests of the job,
\* in the order they are answered, with pending (0%), in_progress (40%),
\* in_progress (90%) and then completed, and it answers every result request
\* with the translation.  The user presses nothing after Translate.

ScenarioA ==
  << [status |-> "pending",     progress |-> 0,   currentPage |-> 0, totalPages |-> 0],
     [status |-> "in_progress", progress |-> 40,  currentPage |-> 2, totalPages |-> 5],
     [status |-> "in_progress", progress |-> 90,  currentPage |-> 4, totalPages |-> 5],
     [status |-> "completed",   progress |-> 100, currentPage |-> 5, totalPages |-> 5] >>

\* Scenario A submits one file
CommitScenario(w) ==
  \E next \in {w} :
    /\ StatusRequests(next) <= MaxScenarioReqs
    /\ ResultRequests(next) <= MaxResultReqs
    /\ next.jobs <= 1
    /\ Commit(next)

ScenarioTranslate(file, fromLang, toLang) ==
  CommitScenario(StartPollingEffect(World, OnTranslate(World, file, fromLang, toLang)))

ScenarioSubmitAccepted(st) ==
  /\ submitting > 0
  /\ LET created == {p \in Pids : server[p] # 0}
         p == Cardinality(created) + 1
         w0 == [World EXCEPT !.submitting = @ - 1, !.server[p] = PendingIx]
         w1 == UpdateLastKnownStatus(w0, p,
                 [status |-> IF st = Null THEN "pending" ELSE st, progress |-> 0,
                  currentPage |-> 0, totalPages |-> 0])
     IN /\ p \in Pids
        /\ CommitScenario(StartPollingEffect(World,
                            OnTranslateStarted(w1, [processId |-> p, status |-> st])))

ScenarioTimerFires(i) ==
  /\ i \in 1..MaxTimers
  /\ timers[i] # NoTimer
  /\ LET w0 == [World EXCEPT !.timers[i] = NoTimer,
                             !.ref = IF @ = i THEN -1 ELSE @]
     IN CommitScenario(StartPollingEffect(World, PollTranslationStatus(w0, timers[i].cl)))

\* The k-th answer to a status request of a job carries the k-th entry of
\* the scenario, and the last entry from then on
ScenarioStatusAnswer(cl) ==
  LET p == cl.processId
      k == netCount[StatusKey(p)] - inFlight[StatusKey(p)] + 1
      d == ScenarioA[Min(k, Len(ScenarioA))]
      w0 == [World EXCEPT !.polls = @ (-) SetToBag({cl}),
                          !.inFlight[StatusKey(p)] = @ - 1,
                          !.server[p] = IF d.status = "completed" THEN CompletedIx
                                        ELSE IF d.status = "pending" THEN PendingIx
                                        ELSE CHOOSE i \in 1..Len(Script) :
                                               Script[i].status = "in_progress"]
  IN CommitScenario(StartPollingEffect(World,
       PollSettled(w0, cl, Value([status |-> d.status, progress |-> d.progress,
                                  currentPage |-> d.currentPage,
                                  totalPages |-> d.totalPages,
                                  isFallback |-> FALSE]))))

ScenarioResultAnswer(p) ==
  /\ activeRequests[ResultKeyMode(p, FALSE)].stage = "first"
  /\ LET w0 == [World EXCEPT !.resultLog = Append(@, 200)]
     IN CommitScenario(StartPollingEffect(World, GetResultAnswered(w0, p, FALSE, Ok200)))

NextScenario ==
  \/ \E file \in Files, fromLang, toLang \in Languages :
       ScenarioTranslate(file, fromLang, toLang)
  \/ \E st \in {Null, "pending"} : ScenarioSubmitAccepted(st)
  \/ \E i \in 1..MaxTimers : ScenarioTimerFires(i)
  \/ \E cl \in BagToSet(polls) : ScenarioStatusAnswer(cl)
  \/ \E p \in Pids : ScenarioResultAnswer(p)

\* The steps the user does not take: a pending timer fires, a request is
\* answered
ScenarioProgress ==
  \/ \E st \in {Null, "pending"} : ScenarioSubmitAccepted(st)
  \/ \E i \in 1..MaxTimers : ScenarioTimerFires(i)
  \/ \E cl \in BagToSet(polls) : ScenarioStatusAnswer(cl)
  \/ \E p \in Pids : ScenarioResultAnswer(p)

\* Timers fire and requests are answered as long as there are any
ScenarioFairness == WF_vars(ScenarioProgress)

SpecScenarioA == InitPageSpec /\ [][NextScenario]_vars /\ ScenarioFairness

ScenarioDone ==
  /\ translationStatus.status = "completed"
  /\ translationStatus.translatedText # Null
  /\ translationStatus.error = Null
  /\ ~translationStatus.isLoading

\* C17: in scenario A the job eventually is 'completed' with a translated
\* text, no error and isLoading false, and from then on no poll timer is
\* pending
C17_Original ==
  (translationStatus.processId # NoPid) ~> [](ScenarioDone /\ PendingTimers(World) = {})

C17_Witness ==
  /\ ScenarioDone
  /\ PendingTimers(World) = {}
  /\ \E p \in Pids : netCount[StatusKey(p)] >= Len(ScenarioA)
  /\ resultLog # <<>>

\* C18: the request interceptor asks the identity provider for a token only
\* when the cached token is null or expired; with a valid cached token it
\* attaches that token and leaves the cache alone; and when the provider
\* returns a token the cache holds it with an expiry 55 minutes after the
\* moment the interceptor read the clock to start the fetch.
C18_Original ==
  [][\A i \in OpCalls :
       /\ (reqs[i].stage # "token" /\ reqs'[i].stage = "token")
            => (~authToken \/ now >= tokenExpiryTime)
       /\ \A op \in Operations :
            (Call(i, op) /\ interceptors # {} /\ authToken /\ now < tokenExpiryTime)
            => /\ reqs'[i].stage = "wire" /\ reqs'[i].header
               /\ authToken' = authToken /\ tokenExpiryTime' = tokenExpiryTime
       /\ ProviderAnswers(i, "token")
            => /\ authToken' /\ tokenExpiryTime' = reqs[i].startedAt + TokenLifetime
               /\ reqs'[i].stage = "wire" /\ reqs'[i].header]_vars

\* A request prepared after the token's lifetime without a valid cached token
\* went out with the token fetched for it
C18_Witness ==
  \E i \in OpCalls :
    /\ reqs[i].stage = "wire" /\ reqs[i].header
    /\ reqs[i].startedAt >= TokenLifetime
    /\ authToken /\ tokenExpiryTime = reqs[i].startedAt + TokenLifetime

\* C19: whatever sequence of registerAuthInterceptor calls and effect
\* cleanups the mounted components perform, at most one request interceptor
\* is registered, it is the one requestInterceptorId names, and every
\* registration ejects the interceptor registered before it.
C19_Original ==
  /\ Cardinality(interceptors) <= 1
  /\ interceptors \subseteq {requestInterceptorId}

\* Two components are mounted and three registrations have happened
C19_Witness ==
  /\ Cardinality(mounted) = NumComponents
  /\ handlers = MaxHandlers
  /\ Cardinality(interceptors) = 1

\* C20: when getToken throws while a request is prepared, the interceptor
\* still hands the request to the network, without an Authorization header,
\* and the call of the operation does not settle with an error because of it.
C20_Original ==
  [][\A i \in OpCalls :
       ProviderAnswers(i, "throw")
       => /\ reqs'[i].stage = "wire"
          /\ reqs'[i].posts = reqs[i].posts + 1
          /\ ~reqs'[i].header
          /\ reqs'[i].outcome = reqs[i].outcome
          /\ authToken' = authToken /\ tokenExpiryTime' = tokenExpiryTime]_vars

\* A request is on the wire without a header although an expired token is
\* cached: getToken threw for it
C20_Witness ==
  \E i \in OpCalls :
    /\ reqs[i].stage = "wire" /\ ~reqs[i].header
    /\ interceptors # {}
    /\ authToken /\ reqs[i].startedAt >= tokenExpiryTime
    /\ now = reqs[i].startedAt

\* C21: each of exportToPdf, exportToDocx, exportToDriveAsPdf and
\* exportToDriveAsDocx answers a 401 to its first POST with one retry, sends
\* no second POST after any other answer, and never sends a third.
C21_Original ==
  [][\A i \in OpCalls :
       (reqs[i].op \in Operations \ {"initiateTranslation"} /\ reqs[i].stage = "wire")
       => /\ (ServerAnswers(i, 401) /\ reqs[i].posts = 1) => reqs'[i].stage = "authWait"
          /\ \A code \in AuthAnswers \ {401} :
               ServerAnswers(i, code) => reqs'[i].stage = "done"
          /\ reqs[i].posts <= 2]_vars

\* C22: getBalance never rejects.  A 200 of the authenticated endpoint is
\* returned as received; its 401 or 403 leads to the debug endpoint, whose
\* data is returned when it reports an authenticated, non-anonymous user, and
\* to the public endpoint otherwise, whose payload is returned; every other
\* failure in the chain (an error answer, no answer, a 200 without a body from
\* the debug endpoint) returns the default snapshot of 10 pages, 0 used.
C22_Original ==
  /\ [][balance'.settled # "error"]_vars
  /\ [][\A ans \in BalanceAnswers : BalanceServerAnswers(ans) =>
          LET ok == ans.kind = "http" /\ ans.code = 200
              returns(payload) == /\ balance'.stage = "done"
                                  /\ balance'.settled = "value"
                                  /\ balance'.result = payload
              asks(endpoint) == /\ balance'.stage \in {"token", "wire"}
                                /\ balance'.endpoint = endpoint
          IN CASE balance.endpoint = "me" /\ ok -> returns(ans.data)
               [] balance.endpoint = "me" /\ ans.code \in {401, 403} -> asks("debug")
               [] balance.endpoint = "debug" /\ ok /\ ans.hasData ->
                    IF "authenticated" \in DOMAIN ans.data /\ ans.data.authenticated
                       /\ ans.data.userId # "anonymous"
                    THEN /\ balance'.stage = "done" /\ balance'.settled = "value"
                         /\ balance'.result.userId = ans.data.userId
                         /\ balance'.result.pagesBalance = ans.data.pagesBalance
                         /\ balance'.result.pagesUsed = ans.data.pagesUsed
                    ELSE asks("public")
               [] balance.endpoint = "public" /\ ok -> returns(ans.data)
               [] OTHER -> /\ returns(DefaultBalance)
                           /\ balance'.result.pagesBalance = 10
                           /\ balance'.result.pagesUsed = 0]_vars

\* Scenario E: the authenticated endpoint failed with 401 or 403, the debug
\* endpoint did not report an authenticated user, and getBalance returned the
\* payload of the public endpoint
C22_Witness ==
  /\ balance.stage = "done"
  /\ balance.endpoint = "public"
  /\ balance.settled = "value"
  /\ balance.result \in BalancePayloads
  /\ balance.result.pagesBalance = 25

\* C23: the direction of a job is 'rtl' exactly when the target language
\* chosen at submission is 'fa' or 'ar' and 'ltr' otherwise, in every state
\* of the job: the submission sets it so and no later step of the same job
\* changes it.
C23_Original ==
  [][/\ \A file \in Files, fromLang, toLang \in Languages :
          (Translate(file, fromLang, toLang) /\ jobs' # jobs)
          => translationStatus'.direction =
               (IF toLang \in {"fa", "ar"} THEN "rtl" ELSE "ltr")
     /\ (jobs > 0 /\ jobs' = jobs)
          => translationStatus'.direction = translationStatus.direction]_vars

----------------------------------------------------------------------------
\* The page of src/components/DocumentTranslation.jsx during an outage: the
\* backend answers the status requests with 503, and once more than
\* FailureCeiling of them were sent it may answer 200 again.  serverUp stays
\* FALSE: the behaviour keeps the request budget of an outage.

\* A status request is answered; statusLog records the answer
OutageStatusAnswer(cl, a, ix) ==
  /\ a = Ok200 \/ (HasResponse(a) /\ a.code = 503)
  /\ a = Ok200 => StatusRequests(World) > FailureCeiling
  /\ a # Ok200 => ix = server[cl.processId]
  /\ LET p == cl.processId
         w0 == [World EXCEPT !.polls = @ (-) SetToBag({cl}),
                             !.inFlight[StatusKey(p)] = @ - 1,
                             !.server[p] = ix,
                             !.statusLog = Append(@, a.code)]
     IN /\ ix \in Later(server[p])
        /\ CommitPage(StartPollingEffect(World,
                        PollSettled(w0, cl, ApiStatusOutcome(a, StatusData(ix)))))

\* The cancel button is shown while isLoading; the user waits through the
\* first FailureCeiling requests of the outage
OutageCancel ==
  /\ translationStatus.isLoading
  /\ StatusRequests(World) >= FailureCeiling
  /\ CommitPage(StartPollingEffect(World, HandleCancel(World)))

NextOutage ==
  \/ \E file \in Files, fromLang, toLang \in Languages : Translate(file, fromLang, toLang)
  \/ \E st \in {Null, "pending"} : SubmitAccepted(st)
  \/ OutageCancel
  \/ RetryPolling
  \/ \E i \in 1..MaxTimers : TimerFires(i)
  \/ \E cl \in BagToSet(polls), a \in PageStatusAnswers, ix \in 1..Len(Script) :
       OutageStatusAnswer(cl, a, ix)
  \/ \E p \in Pids, a \in PageResultAnswers : PageResultAnswer(p, a)

InitOutage ==
  /\ InitPageSpec
  /\ serverUp = FALSE

SpecOutage == InitOutage /\ [][NextOutage]_vars

\* C24: the step that marks a job 'unknown' comes only after more than 15
\* consecutive failed status requests, with no confirmed success among the
\* last 16 answers, and it leaves no poll timer pending.
C24_Original ==
  [][(translationStatus'.status = "unknown" /\ translationStatus.status # "unknown")
     => /\ Len(statusLog') > FailureCeiling
        /\ \A k \in (Len(statusLog') - FailureCeiling)..Len(statusLog') :
             statusLog'[k] # 200
        /\ PendingTimers(World)' = {}]_vars

\* C25: at every moment at most one poll timer is pending: a timer assigned
\* to statusCheckTimeoutRef replaces one that has fired or been cleared.
C25_Original == Cardinality(PendingTimers(World)) <= 1

\* C26: for a single job on the page of src/components/DocumentTranslation.jsx
\* with checkTranslationStatus of src/services/api.js at most one status
\* request is in flight at any time.
C26_Original == \A p \in Pids : inFlight[StatusKey(p)] <= 1

----------------------------------------------------------------------------
\* The page of src/components/DocumentTranslation.jsx is unmounted while a
\* job is polled

\* The cleanups that run at unmount: the one of the start-polling effect and
\* the one of the unmount effect both clear the timer statusCheckTimeoutRef
\* holds
UnmountCleanup(w) ==
  LET w1 == IF w.ref # 0 THEN ClearTimeout(w, w.ref) ELSE w
  IN [w1 EXCEPT !.unmounted = TRUE]

UnmountPage ==
  /\ ~unmounted
  /\ translationStatus.processId # NoPid
  /\ CommitPage(UnmountCleanup(World))

NextUnmount ==
  \/ \E file \in Files, fromLang, toLang \in Languages :
       ~unmounted /\ Translate(file, fromLang, toLang)
  \/ \E st \in {Null, "pending"} : SubmitAccepted(st)
  \/ UnmountPage
  \/ \E i \in 1..MaxTimers : TimerFires(i)
  \/ \E cl \in BagToSet(polls), a \in PageStatusAnswers, ix \in 1..Len(Script) :
       PageStatusAnswer(cl, a, ix)
  \/ \E p \in Pids, a \in PageResultAnswers : PageResultAnswer(p, a)

InitUnmount ==
  /\ InitPageSpec
  /\ serverUp = TRUE

SpecUnmount == InitUnmount /\ [][NextUnmount]_vars

\* C27: after the page unmounts no poll timer is pending and no status check
\* is issued, also when a status request or a result fetch was in flight at
\* the unmount.
C27_Original ==
  /\ [](unmounted => PendingTimers(World) = {})
  /\ [][unmounted => StatusRequests(World)' = StatusRequests(World)]_vars

\* C28: on the stall page a job that has been loading for more than 30
\* seconds since its last confirmed status response has statusCheckStalled
\* set, and a response tagged isFallback does not restart that time.
C28_Original ==
  /\ []((translationStatus.isLoading /\ timeCounter >= 2) => statusCheckStalled)
  /\ [][\A p \in Pids, ix \in 1..Len(Script) :
          (/\ StatusAnswerB(p, [kind |-> "http", code |-> 503], ix)
           /\ translationStatus.isLoading /\ translationStatus'.isLoading)
          => timeCounter' = timeCounter]_vars

\* C29: while simulated progress is active its value lies between 5 and 90
\* and its page between 1 and the estimated total, the value changes only by
\* +1, and no tick of the one-second interval starts the simulation again.
C29_Original ==
  /\ [](simulatedProgress.active =>
          /\ simulatedProgress.value >= 5 /\ simulatedProgress.value <= 90
          /\ simulatedProgress.page >= 1
          /\ simulatedProgress.page <= simulatedProgress.total)
  /\ [][(simulatedProgress.active /\ simulatedProgress'.active)
        => simulatedProgress'.value \in
             {simulatedProgress.value, simulatedProgress.value + 1}]_vars
  /\ [][\A level \in 1..3 :
          (Tick(level) /\ simulatedProgress.active) => ~StartsSimulation(World, level)]_vars

\* C30: the step that applies a confirmed (200, non-fallback) status response
\* to the loading job, whether it answers the first request of a status
\* check or its retry after a 401, leaves simulated progress inactive and
\* its ticker cleared, and the progress shown is the progress of that response.
C30_Original ==
  [][\A p \in Pids, ix \in 1..Len(Script) :
       (/\ StatusAnswerB(p, Ok200, ix) \/ StatusRetryAnswerB(p, Ok200, ix)
        /\ translationStatus.isLoading
        /\ translationStatus.processId = p)
       => /\ ~simulatedProgress'.active
          /\ ~forcedProgressRef'
          /\ GetProgressPercentage(World)' = StatusData(ix).progress]_vars

\* C31: a handleRetryPolling step on a job that has a processId ends with
\* consecFailures 0, error null and isLoading true, and issues one status
\* request in that step; without a processId it changes nothing.
C31_Original ==
  [][RetryPolling =>
       IF translationStatus.processId = NoPid
       THEN UNCHANGED vars
       ELSE /\ consecFailures' = 0
            /\ translationStatus'.error = Null
            /\ translationStatus'.isLoading
            /\ StatusRequests(World)' = StatusRequests(World) + 1]_vars

\* Status checks of the log that ended in a transport-level error (5xx; a
\* timeout is answered no code) after the last answer 200
RECURSIVE TransportErrorsSinceSuccess(_)
TransportErrorsSinceSuccess(log) ==
  IF log = <<>> \/ log[Len(log)] = 200 THEN 0
  ELSE TransportErrorsSinceSuccess(SubSeq(log, 1, Len(log) - 1))
       + (IF log[Len(log)] >= 500 THEN 1 ELSE 0)

\* C32: consecFailures equals the number of status checks that ended in a
\* transport-level error since the last confirmed status response (or since
\* submission).
C32_Original ==
  consecFailures = TransportErrorsSinceSuccess(statusLog)

----------------------------------------------------------------------------
\* getPollInterval, the delay of the next poll.  Times are in units of
\* 1/IntervalScale ms, in which 1000 * 1.5^n is a whole number for n <= 15.

IntervalScale == 2^12

Max(a, b) == IF a > b THEN a ELSE b

\* Math.pow(1.5, failures) * 1000
PowBackoff(failures) == 125 * 3^failures * 2^(15 - failures)

\* failures > 0 ? Math.min(Math.pow(1.5, failures) * 1000, maxBackoff) : 0
FailureBackoffUncapped(failures, maxBackoff) ==
  IF failures > 0 THEN PowBackoff(failures) ELSE 0

FailureBackoff(failures, maxBackoff) ==
  IF failures > 0 THEN Min(PowBackoff(failures), maxBackoff * IntervalScale) ELSE 0

MaxBackoff == 20000
MaxBackoffB == 15000
MaxDelay == 10000
JitterSpan == 1000

\* Math.floor(Math.random() * 1000) - 500
Jitters == (0 - 500)..(JitterSpan - 501)

\* The base interval by status and progress
BaseInterval(ts) ==
  IF ts.status = "pending" THEN 1500
  ELSE IF ts.status = "in_progress"
  THEN IF ts.progress < 25 THEN 2000
       ELSE IF ts.progress < 75 THEN 3000 ELSE 4000
  ELSE 2000

\* getPollInterval of src/components/DocumentTranslation.jsx
GetPollInterval(w, jitter) ==
  LET failureBackoff == FailureBackoff(w.cf, MaxBackoff)
  IN [page |-> "A", jitter |-> jitter, backoff |-> failureBackoff,
      interval |-> Max(1000 * IntervalScale,
                       (BaseInterval(w.ts) + jitter) * IntervalScale + failureBackoff)]

\* Variant of the stall page's getPollInterval that does not read
\* statusCheckStalled
GetPollIntervalBUnstalled(w, jitter) ==
  LET failureBackoff == FailureBackoff(w.cf, MaxBackoffB)
  IN [page |-> "B", jitter |-> jitter, backoff |-> failureBackoff,
      interval |-> Max(1000 * IntervalScale,
                       (BaseInterval(w.ts) + jitter) * IntervalScale + failureBackoff)]

\* getPollInterval of the stall page (src/unnamed/part_001)
GetPollIntervalB(w, jitter) ==
  LET baseInterval == IF w.statusCheckStalled THEN 1500 ELSE BaseInterval(w.ts)
      failureBackoff == FailureBackoff(w.cf, MaxBackoffB)
  IN [page |-> "B", jitter |-> jitter, backoff |-> failureBackoff,
      interval |-> Max(1000 * IntervalScale,
                       (baseInterval + jitter) * IntervalScale + failureBackoff)]

\* The delay pollStatus of the retryCount variant computes in its catch branch
PollStatusDelay(newRetryCount) ==
  Min(MaxDelay * IntervalScale, PowBackoff(newRetryCount))

\* Status and progress of a loading job
IntervalInputs ==
  {<<Null, 0>>, <<"pending", 0>>} \cup ({"in_progress"} \X {24, 25, 74, 75})

\* A loading job whose next poll is about to be scheduled
InitInterval ==
  /\ authToken = TRUE
  /\ activeRequests = [k \in Keys |-> NoReq]
  /\ lastKnownStatus = [p \in Pids |-> NoStatus]
  /\ netCount = [k \in Keys |-> 0]
  /\ inFlight = [k \in Keys |-> 0]
  /\ calls = [c \in Callers |-> IdleCall]
  /\ server = [p \in Pids |-> IF p = 1 THEN PendingIx ELSE 0]
  /\ serverUp = TRUE
  /\ \E sp \in IntervalInputs :
       translationStatus = [InitialTranslationStatus EXCEPT
                              !.isLoading = TRUE, !.processId = 1,
                              !.status = sp[1], !.progress = sp[2],
                              !.fileName = "doc.pdf", !.lastStatusUpdate = "set"]
  /\ consecFailures \in 0..FailureCeiling
  /\ statusCheckStalled \in BOOLEAN
  /\ statusCheckTimeoutRef = 0
  /\ timers = [i \in 1..MaxTimers |-> NoTimer]
  /\ polls = EmptyBag
  /\ submitting = 0
  /\ successToasts = 0
  /\ jobs = 1
  /\ resultLog = <<>>
  /\ lastFallbackStatus = FALSE
  /\ timeCounter = 0
  /\ simulatedProgress = NoSimulation
  /\ forcedProgressRef = FALSE
  /\ tickSimActive = FALSE
  /\ statusLog = <<>>
  /\ unmounted = FALSE
  /\ pollInterval = NoInterval
  /\ InitAxios

\* The page of src/components/DocumentTranslation.jsx, which has no
\* statusCheckStalled, computes the delay of the next poll
ComputeInterval(jitter) ==
  /\ pollInterval = NoInterval
  /\ ~statusCheckStalled
  /\ pollInterval' = GetPollInterval(World, jitter)
  /\ UNCHANGED <<authToken, axiosVars>>
  /\ UNCHANGED <<activeRequests, lastKnownStatus, netCount, inFlight, calls, server,
                 serverUp, translationStatus, consecFailures, statusCheckTimeoutRef,
                 timers, polls, submitting, successToasts, jobs, resultLog,
                 lastFallbackStatus, statusCheckStalled, timeCounter, simulatedProgress,
                 forcedProgressRef, tickSimActive, statusLog, unmounted>>

\* The stall page computes the delay of the next poll
ComputeIntervalB(jitter) ==
  /\ pollInterval = NoInterval
  /\ pollInterval' = GetPollIntervalB(World, jitter)
  /\ UNCHANGED <<authToken, axiosVars>>
  /\ UNCHANGED <<activeRequests, lastKnownStatus, netCount, inFlight, calls, server,
                 serverUp, translationStatus, consecFailures, statusCheckTimeoutRef,
                 timers, polls, submitting, successToasts, jobs, resultLog,
                 lastFallbackStatus, statusCheckStalled, timeCounter, simulatedProgress,
                 forcedProgressRef, tickSimActive, statusLog, unmounted>>

NextInterval ==
  \/ \E jitter \in Jitters : ComputeInterval(jitter)
  \/ \E jitter \in Jitters : ComputeIntervalB(jitter)

SpecInterval == InitInterval /\ [][NextInterval]_vars

C34_Original ==
  pollInterval # NoInterval =>
    LET status == translationStatus.status
        progress == translationStatus.progress
        base == IF statusCheckStalled \/ status = "pending" THEN 1500
                ELSE IF status # "in_progress" THEN 2000
                ELSE IF progress < 25 THEN 2000
                ELSE IF progress < 75 THEN 3000 ELSE 4000
        sum == (base + pollInterval.jitter) * IntervalScale + pollInterval.backoff
    IN /\ pollInterval.jitter \in (0 - 500)..499
       /\ pollInterval.interval = (IF sum > 1000 * IntervalScale THEN sum
                                   ELSE 1000 * IntervalScale)
       /\ pollInterval.interval >= 1000 * IntervalScale

\* A stalled job at 80 % is polled after 1.5 s and its jitter
C34_Witness ==
  /\ pollInterval.page = "B"
  /\ statusCheckStalled
  /\ translationStatus.status = "in_progress"
  /\ translationStatus.progress >= 75
  /\ consecFailures = 0
  /\ pollInterval.interval = (1500 + pollInterval.jitter) * IntervalScale

----------------------------------------------------------------------------
\* The page of src/components/DocumentTranslation.jsx when the user submits
\* again after a cancellation or a failure; the backend is up

MaxResubmits == 2  \* translations the user submits, one after the other

CommitResubmit(w) ==
  \E next \in {w} :
    /\ StatusRequests(next) <= MaxStatusReqs
    /\ ResultRequests(next) <= MaxResultReqs
    /\ next.jobs <= MaxResubmits
    /\ Commit(next)

ResubmitTranslate(file, fromLang, toLang) ==
  CommitResubmit(StartPollingEffect(World, OnTranslate(World, file, fromLang, toLang)))

\* The backend accepts the oldest upload in flight and names the next job
ResubmitAccepted(st) ==
  /\ submitting > 0
  /\ LET created == {p \in Pids : server[p] # 0}
         p == Cardinality(created) + 1
         w0 == [World EXCEPT !.submitting = @ - 1, !.server[p] = PendingIx]
     IN /\ p \in Pids
        /\ CommitResubmit(StartPollingEffect(World,
                            OnTranslateStarted(w0, [processId |-> p, status |-> st])))

\* initiateTranslation throws, or resolves without a processId
ResubmitRejected(r) ==
  /\ submitting > 0
  /\ LET w0 == [World EXCEPT !.submitting = @ - 1]
     IN CommitResubmit(StartPollingEffect(World,
          IF r = "noProcessId"
          THEN OnTranslateStarted(w0, [processId |-> NoPid, status |-> Null])
          ELSE OnTranslateFailed(w0, MsgInitiateFailed)))

ResubmitCancel ==
  /\ translationStatus.isLoading
  /\ CommitResubmit(StartPollingEffect(World, HandleCancel(World)))

ResubmitTimerFires(i) ==
  /\ timers[i] # NoTimer
  /\ LET w0 == [World EXCEPT !.timers[i] = NoTimer,
                             !.ref = IF @ = i THEN -1 ELSE @]
     IN CommitResubmit(StartPollingEffect(World,
                         PollTranslationStatus(w0, timers[i].cl)))

\* A status request is answered 200 with the state ix the job has reached
ResubmitStatusAnswer(cl, ix) ==
  LET p == cl.processId
      w0 == [World EXCEPT !.polls = @ (-) SetToBag({cl}),
                          !.inFlight[StatusKey(p)] = @ - 1,
                          !.server[p] = ix]
  IN /\ ix \in Later(server[p])
     /\ CommitResubmit(StartPollingEffect(World,
                         PollSettled(w0, cl, ApiStatusOutcome(Ok200, StatusData(ix)))))

\* The result request of a completed job is answered 200
ResubmitResultAnswer(p) ==
  /\ activeRequests[ResultKeyMode(p, FALSE)].stage = "first"
  /\ server[p] = CompletedIx
  /\ CommitResubmit(StartPollingEffect(World, GetResultAnswered(World, p, FALSE, Ok200)))

NextResubmit ==
  \/ \E file \in Files, fromLang, toLang \in Languages :
       ResubmitTranslate(file, fromLang, toLang)
  \/ \E st \in {Null, "pending"} : ResubmitAccepted(st)
  \/ \E r \in {"noProcessId", "error"} : ResubmitRejected(r)
  \/ ResubmitCancel
  \/ \E i \in 1..MaxTimers : ResubmitTimerFires(i)
  \/ \E cl \in BagToSet(polls), ix \in 1..Len(Script) : ResubmitStatusAnswer(cl, ix)
  \/ \E p \in Pids : ResubmitResultAnswer(p)

InitResubmit ==
  /\ InitPageSpec
  /\ serverUp = TRUE

SpecResubmit == InitResubmit /\ [][NextResubmit]_vars

\* C35: the step in which initiateTranslation throws or returns no processId
\* ends with status 'failed', isLoading false, an error and no processId, it
\* sends no status request and sets no poll timer.
C35_Original ==
  [][\A r \in {"noProcessId", "error"} :
       ResubmitRejected(r) =>
         /\ translationStatus'.status = "failed"
         /\ ~translationStatus'.isLoading
         /\ translationStatus'.error # Null
         /\ translationStatus'.processId = NoPid
         /\ StatusRequests(World)' = StatusRequests(World)
         /\ PendingTimers(World)' = {}]_vars

----------------------------------------------------------------------------
\* The retryCount variant of the page with a backend that is up

CommitRetryCount(w) ==
  \E next \in {w} :
    /\ StatusRequests(next) <= MaxStatusReqs
    /\ ResultRequests(next) <= MaxResultReqs
    /\ next.jobs <= MaxSubmits
    /\ Commit(next)

TranslateR(file, fromLang, toLang) ==
  CommitRetryCount(PollingEffectR(World, OnTranslateR(World, file, fromLang, toLang)))

SubmitAcceptedR(st) ==
  /\ submitting > 0
  /\ LET created == {p \in Pids : server[p] # 0}
         p == Cardinality(created) + 1
         w0 == [World EXCEPT !.submitting = @ - 1, !.server[p] = PendingIx]
     IN /\ p \in Pids
        /\ CommitRetryCount(PollingEffectR(World,
                              OnTranslateStartedR(w0, [processId |-> p, status |-> st])))

CancelR ==
  /\ translationStatus.isLoading
  /\ CommitRetryCount(PollingEffectR(World, HandleCancel(World)))

\* A pending timer fires: pollStatus, or the setRetryCount(0) of the resume
TimerFiresR(i) ==
  /\ timers[i] # NoTimer
  /\ LET w0 == [World EXCEPT !.timers[i] = NoTimer,
                             !.ref = IF @ = i THEN -1 ELSE @]
     IN CommitRetryCount(PollingEffectR(World,
          IF timers[i].kind = "resetRetry" THEN ResetRetryCount(w0)
          ELSE PollStatusR(w0, timers[i].cl)))

\* A status request is answered: 200 with the state ix the job has reached,
\* or 503
StatusAnswerR(cl, a, ix) ==
  LET p == cl.processId
      w0 == [World EXCEPT !.polls = @ (-) SetToBag({cl}),
                          !.inFlight[StatusKey(p)] = @ - 1,
                          !.server[p] = ix]
  IN /\ a # Ok200 => ix = server[p]
     /\ ix \in Later(server[p])
     /\ CommitRetryCount(PollingEffectR(World,
                           PollSettledR(w0, cl, ApiStatusOutcome(a, StatusData(ix)))))

\* The result request is answered: 200 only for a completed job, 400 'not
\* yet complete' otherwise too
ResultAnswerR(p, a) ==
  /\ activeRequests[ResultKeyMode(p, FALSE)].stage = "first"
  /\ (HasResponse(a) /\ a.code = 200) => server[p] = CompletedIx
  /\ LET w0 == [World EXCEPT !.resultLog = Append(@, a.code)]
     IN CommitRetryCount(PollingEffectR(World, GetResultAnswered(w0, p, FALSE, a)))

NextRetryCount ==
  \/ \E file \in Files, fromLang, toLang \in Languages : TranslateR(file, fromLang, toLang)
  \/ \E st \in {Null, "pending"} : SubmitAcceptedR(st)
  \/ CancelR
  \/ \E i \in 1..MaxTimers : TimerFiresR(i)
  \/ \E cl \in BagToSet(polls), a \in {Ok200, [kind |-> "http", code |-> 503]},
        ix \in 1..Len(Script) : StatusAnswerR(cl, a, ix)
  \/ \E p \in Pids, a \in {Ok200, [kind |-> "http", code |-> 400]} : ResultAnswerR(p, a)

\* The steps the user does not take: a pending timer fires, a request is
\* answered
RetryCountProgress ==
  \/ \E st \in {Null, "pending"} : SubmitAcceptedR(st)
  \/ \E i \in 1..MaxTimers : TimerFiresR(i)
  \/ \E cl \in BagToSet(polls), a \in {Ok200, [kind |-> "http", code |-> 503]},
        ix \in 1..Len(Script) : StatusAnswerR(cl, a, ix)
  \/ \E p \in Pids, a \in {Ok200, [kind |-> "http", code |-> 400]} : ResultAnswerR(p, a)

InitRetryCount ==
  /\ InitPageSpec
  /\ serverUp = TRUE

SpecRetryCount ==
  InitRetryCount /\ [][NextRetryCount]_vars /\ WF_vars(RetryCountProgress)

\* C36: when the last result fetch reported 'not yet complete' and the job
\* is loading, a further status request is eventually sent (or the job
\* stops loading); stated for the request counts that leave room for one.
C36_Original ==
  \A n \in 0..(MaxStatusReqs - 1) :
    (/\ translationStatus.isLoading
     /\ resultLog # <<>>
     /\ resultLog[Len(resultLog)] = 400
     /\ StatusRequests(World) = n)
    ~> (StatusRequests(World) > n \/ ~translationStatus.isLoading)

----------------------------------------------------------------------------
\* Direct callers of checkTranslationStatus (part_003) or of
\* getTranslationResult (src/services/api.js) on one _activeRequests map.
\* The two functions use disjoint keys; a behaviour exercises one of them.

NoStatusTraffic == \A p \in Pids : netCount[StatusKey(p)] = 0

NoResultTraffic ==
  \A p \in Pids, m \in BOOLEAN : netCount[ResultKeyMode(p, m)] = 0

NextService ==
  \/ NoResultTraffic /\ NextDedup
  \/ NoStatusTraffic /\ NextResult

SpecService == InitService /\ [][NextService]_vars

\* the callers whose promise is the one stored under a key
KeyWaiters(key) ==
  {activeRequests[key].waiters[i].id : i \in 1..Len(activeRequests[key].waiters)}

\* a request is unsettled while its GET is in flight or its retry after a
\* token refresh is still to be sent
Unsettled(key) ==
  \/ activeRequests[key].stage \in {"first", "retry"} /\ inFlight[key] = 1
  \/ activeRequests[key].stage = "authWait" /\ inFlight[key] = 0

KeyHeldOnlyWhileUnsettled ==
  \A key \in Keys :
    activeRequests[key] # NoReq =>
      /\ Unsettled(key)
      /\ KeyWaiters(key) # {}
      /\ \A c \in KeyWaiters(key) : calls[c].state = "waiting"

WaitingOnStoredPromise ==
  \A c \in Callers :
    calls[c].state = "waiting" => \E key \in Keys : c \in KeyWaiters(key)

SettlingRemovesKey ==
  \A key \in Keys :
    (\E c \in KeyWaiters(key) : calls'[c].state = "settled")
      => activeRequests'[key] = NoReq

CallAfterSettlementSendsGet ==
  /\ \A c \in Callers, p \in CallerPids :
       (CallStatus(c, p) /\ activeRequests[StatusKey(p)] = NoReq)
         => /\ netCount'[StatusKey(p)] = netCount[StatusKey(p)] + 1
            /\ calls'[c].state = "waiting"
  /\ \A c \in Callers, p \in CallerPids, m \in BOOLEAN :
       (CallResult(c, p, m) /\ activeRequests[ResultKeyMode(p, m)] = NoReq)
         => /\ netCount'[ResultKeyMode(p, m)] = netCount[ResultKeyMode(p, m)] + 1
            /\ calls'[c].state = "waiting"

\* C37: _activeRequests holds the key of a status or result request only
\* while that request is unsettled; the step that settles a request (value,
\* fallback or error) removes its key, and a call made for the same
\* processId after that sends a new GET and waits for it instead of
\* receiving the settled promise.
C37_Original ==
  /\ [](KeyHeldOnlyWhileUnsettled /\ WaitingOnStoredPromise)
  /\ [][SettlingRemovesKey /\ CallAfterSettlementSendsGet]_vars

\* a caller got its answer, its key is gone, and a second GET for the same
\* key has been sent for a later caller
C37_Witness ==
  \E c, d \in Callers, key \in Keys :
    /\ c # d
    /\ calls[c].state = "settled"
    /\ calls[d].state = "waiting"
    /\ KeyWaiters(key) = {d}
    /\ calls[c].pid = calls[d].pid
    /\ netCount[key] = 2

----------------------------------------------------------------------------
\* 200 answers whose status is neither 'completed' nor 'failed'
NonTerminalIx == {ix \in 1..Len(Script) : Script[ix].status \in {"pending", "in_progress"}}

\* C38: after a status check of the loading job returned a non-terminal
\* status, the timer that will issue the next check is the one set with the
\* delay of getPollInterval(): it is pending and no timer with another delay
\* (the 500 ms timer of the start-polling effect, the 1000 ms timer of the
\* watchdog) stands in its place.
C38_Original ==
  [][\A cl \in BagToSet(polls), ix \in NonTerminalIx :
       (/\ PageStatusAnswer(cl, Ok200, ix)
        /\ translationStatus.isLoading
        /\ translationStatus.processId = cl.processId)
         => /\ \E i \in PendingTimers(World)' : timers'[i].kind = "interval"
            /\ \A i \in PendingTimers(World)' : timers'[i].kind = "interval"]_vars

----------------------------------------------------------------------------
\* The fields of translationStatus that describe the job
JobFields ==
  <<translationStatus.processId, translationStatus.status,
    translationStatus.progress, translationStatus.translatedText>>

\* job p is not the most recent submission: an upload made after it is still
\* in flight, or a job created after it exists
Superseded(p) ==
  \/ submitting > 0
  \/ \E q \in Pids : q > p /\ server[q] # 0

\* a response to an earlier job: the answer to an upload that is not the
\* newest one in flight, or a status or result answer of a superseded job
LateResponse ==
  \/ /\ submitting >= 2
     /\ \/ \E st \in {Null, "pending"} : ResubmitAccepted(st)
        \/ \E r \in {"noProcessId", "error"} : ResubmitRejected(r)
  \/ \E cl \in BagToSet(polls), ix \in 1..Len(Script) :
       Superseded(cl.processId) /\ ResubmitStatusAnswer(cl, ix)
  \/ \E p \in Pids : Superseded(p) /\ ResubmitResultAnswer(p)

\* C39: processId, status, progress and translatedText of translationStatus
\* belong to the most recently submitted job: a late response to an earlier
\* job's submission, status check or result fetch changes none of them.
C39_Original == [][LateResponse => JobFields' = JobFields]_vars

----------------------------------------------------------------------------
\* something will run for the job again: a poll timer is pending, a status
\* check awaits its answer or a result fetch awaits its answer
PollingAlive ==
  \/ PendingTimers(World) # {}
  \/ polls # EmptyBag
  \/ \E p \in Pids : activeRequests[ResultKeyMode(p, FALSE)] # NoReq

\* Timers fire and requests are answered as long as there are any; the user
\* is not obliged to do anything
PageProgress ==
  \/ \E st \in {Null, "pending"} : SubmitAccepted(st)
  \/ \E i \in 1..MaxTimers : TimerFires(i)
  \/ \E cl \in BagToSet(polls), a \in PageStatusAnswers, ix \in 1..Len(Script) :
       PageStatusAnswer(cl, a, ix)
  \/ \E p \in Pids, a \in PageResultAnswers : PageResultAnswer(p, a)

SpecHandsOffFair == InitPageSpec /\ [][NextHandsOff]_vars /\ WF_vars(PageProgress)

LoadingJob == translationStatus.isLoading /\ translationStatus.processId # NoPid

\* C40: whenever isLoading is true and processId is set, a poll timer is
\* pending, a status check is in flight or a result fetch is in flight, and
\* from every such state the job leaves the loading state or a further
\* status check is issued.
C40_Original ==
  /\ [](LoadingJob => PollingAlive)
  /\ \A n \in 0..(MaxStatusReqs - 1) :
       (LoadingJob /\ StatusRequests(World) = n)
         ~> (~translationStatus.isLoading \/ StatusRequests(World) > n)

\* the job is still loading after two status checks and the timer for the
\* third is pending
C40_Witness ==
  /\ LoadingJob
  /\ StatusRequests(World) = 2
  /\ polls = EmptyBag
  /\ ~ResultFetchInFlight
  /\ PendingTimers(World) # {}

============================================================================
